---- MODULE Spec2Model ----
(***************************************************************************)
(* Solana transaction lifecycle manager (SolanaTxManager): the stored      *)
(* transaction metadata, the RPC requests in flight with the continuation  *)
(* bound to each, and one action per entry point or continuation.          *)
(***************************************************************************)
EXTENDS Integers, Sequences, FiniteSets, Bags, TLC

\* ------------------------------------------------------------------ bounds
\* Ids GenerateMetaID may hand out in one run.
MaxTx == 2
\* RPC requests outstanding at the same time.
MaxInFlight == 2
\* Calls made to the manager from outside in one run.
MaxCalls == 3
\* The greatest max_buffer_size and max_depth in the header of a Merkle-tree
\* account buffer handed to the decoder.
MaxHeaderWord == 2
\* The co-signers of one token transfer.
MaxSigners == 2
\* The nodes of one proof path.
MaxProofLen == 2
\* The longest page of the indexer and the most records it returns to one
\* fetch over all its pages.
MaxPageLen == 2
MaxRecords == 2
\* The transactions Submitted when the block tracker starts to drive the
\* reconciliation.
MaxSubmitted == 1

\* ------------------------------------------------------- program constants
\* solana_tx_manager.cc:108
kValidBlockHeightThreshold == 150

\* ------------------------------------------------------------ value sets
Chains == {"mainnet", "devnet"}
\* Heights GetSolanaBlockHeight may report.
BlockHeights == {2, 200}
\* (blockhash, last valid block height) pairs GetLatestBlockhash may report.
LatestBlockhashes == {"B1"}
LastValidBlockHeights == {2}
\* Signatures SendSolanaTransaction may return.
TxHashes == {"H1"}

kSuccess == "kSuccess"
kInternalError == "kInternalError"
\* (error, error_message) pairs an RPC may answer with.
RpcOk == [error |-> kSuccess, error_message |-> ""]
RpcFailures ==
  { [error |-> "kMethodNotFound", error_message |-> "rpc error"],
    [error |-> kInternalError, error_message |-> ""] }
RpcResults == {RpcOk} \cup RpcFailures

IDS_WALLET_INTERNAL_ERROR == "IDS_WALLET_INTERNAL_ERROR"
IDS_BRAVE_WALLET_TRANSACTION_NOT_FOUND == "IDS_BRAVE_WALLET_TRANSACTION_NOT_FOUND"
IDS_BRAVE_WALLET_TRANSACTION_NOT_RETRIABLE == "IDS_BRAVE_WALLET_TRANSACTION_NOT_RETRIABLE"
IDS_WALLET_SEND_TRANSACTION_CONVERT_TX_DATA == "IDS_WALLET_SEND_TRANSACTION_CONVERT_TX_DATA"

\* base::Time() and base::Time::Now()
TimeUnset == 0
TimeNow == 1

\* SolanaSignatureStatus(); std::nullopt in a GetSignatureStatuses answer is
\* the record with present = FALSE.
EmptySignatureStatus == [present |-> TRUE, err |-> "", confirmation_status |-> ""]
NoSignatureStatus == [present |-> FALSE, err |-> "", confirmation_status |-> ""]
SignatureStatuses ==
  { NoSignatureStatus,
    EmptySignatureStatus,
    [present |-> TRUE, err |-> "", confirmation_status |-> "confirmed"],
    [present |-> TRUE, err |-> "", confirmation_status |-> "finalized"],
    [present |-> TRUE, err |-> "InstructionError", confirmation_status |-> "finalized"] }

\* The transaction data a caller may hand to AddUnapprovedTransaction: made by
\* the wallet (empty blockhash), or decoded from a dApp's signed transaction
\* (blockhash set, signatures present), with or without a durable nonce.
TxDataInputs ==
  { [recent_blockhash |-> "", uses_durable_nonce |-> FALSE,
     sign_tx_param |-> FALSE, raw_signatures |-> FALSE, retriable |-> TRUE],
    [recent_blockhash |-> "B0", uses_durable_nonce |-> FALSE,
     sign_tx_param |-> TRUE, raw_signatures |-> TRUE, retriable |-> FALSE],
    [recent_blockhash |-> "B0", uses_durable_nonce |-> TRUE,
     sign_tx_param |-> TRUE, raw_signatures |-> TRUE, retriable |-> TRUE] }

VARIABLES
  txs,                \* tx_state_manager_: stored id -> SolanaTxMeta
  nextId,             \* the next id TxMeta::GenerateMetaID returns
  inflight,           \* bag of outstanding RPC requests with their bound continuation
  calls,              \* calls made to the manager from outside so far
  destroyed,          \* the manager was destructed (weak pointers invalidated)
  last,               \* the step just taken: continuation, answer, writes, callback
  input,              \* arguments of a function applied on its own
  output              \* what that function returned

vars == <<txs, nextId, inflight, calls, destroyed, last, input, output>>

Ids == 1..MaxTx

\* ------------------------------------------------------------- records
NoMeta ==
  [id |-> 0, chain_id |-> "", status |-> "", tx_hash |-> "",
   submitted_time |-> TimeUnset, confirmed_time |-> TimeUnset,
   signature_status |-> EmptySignatureStatus,
   recent_blockhash |-> "", last_valid_block_height |-> 0,
   uses_durable_nonce |-> FALSE, sign_tx_param |-> FALSE,
   raw_signatures |-> FALSE, retriable |-> FALSE]

\* No encoded message.
NoMessage == [recent_blockhash |-> "", uses_durable_nonce |-> FALSE]

\* The empty base58 text: no address.
NoAddress == [base58 |-> <<>>]

\* std::nullopt of std::optional<SolCompressedNftProofData>
\* (simple_hash_client.h:27-41).
NoProof ==
  [present |-> FALSE, root |-> NoAddress, data_hash |-> NoAddress,
   creator_hash |-> NoAddress, owner |-> NoAddress, proof |-> <<>>,
   merkle_tree |-> NoAddress, leaf_index |-> <<0, 0, 0, 0>>,
   canopy_depth |-> 0]

\* A null mojom::SolanaTxDataPtr.
NoTxData ==
  [present |-> FALSE, recent_blockhash |-> "", last_valid_block_height |-> 0,
   fee_payer |-> NoAddress, to_wallet_address |-> NoAddress, tx_type |-> "",
   instructions |-> <<>>]

\* No fetch of the NFT indexer. cursor = "" stands for std::nullopt; seen is
\* history: every record the indexer returned to this fetch so far.
NoFetch ==
  [call |-> 0, account_address |-> "", chain_ids |-> <<>>, coin |-> "",
   cursor |-> "", skip_spam |-> FALSE, only_spam |-> FALSE, callback |-> "",
   nfts_so_far |-> <<>>, seen |-> <<>>]

NoReq ==
  [rpc |-> "", handler |-> "", chain_id |-> "", meta |-> NoMeta,
   tx_meta_id |-> 0, callback |-> "", blockhash |-> "",
   tx_meta_ids |-> <<>>, block_height |-> 0, message |-> NoMessage,
   tx_signatures |-> <<>>, token_address |-> "", pubkey |-> NoAddress,
   from_wallet_address |-> NoAddress, to_wallet_address |-> NoAddress,
   proof |-> NoProof, fetch |-> NoFetch,
   spl_token_mint_address |-> NoAddress,
   from_associated_token_account |-> NoAddress,
   to_associated_token_account |-> NoAddress, amount |-> <<>>]

NoCallback ==
  [name |-> "", success |-> FALSE, error |-> "", error_message |-> "", id |-> 0,
   tx_fee |-> 0, tx_data |-> NoTxData, nfts |-> <<>>, cursor |-> ""]

\* No function is being applied on its own.
NoInput == [fn |-> ""]
NoOutput == [done |-> FALSE]

NoLast ==
  [op |-> "", arg |-> 0, req |-> NoReq, result |-> RpcOk,
   blockhash |-> "", height |-> 0, tx_hash |-> "", statuses |-> <<>>,
   before |-> NoMeta, writes |-> <<>>, rejected |-> <<>>,
   sent |-> <<>>, cb |-> NoCallback, aborted |-> FALSE, chain_id |-> "",
   answer |-> <<>>, fetch |-> NoFetch]

\* ------------------------------------------------- storage collaborator
\* TxStateManager::GetTx / GetSolanaTx: a copy of the stored meta, or absent.
HasTx(store, id) == id \in DOMAIN store

\* TxStateManager::AddOrUpdateTx when the store accepts the write.
AddOrUpdateTx(store, meta) ==
  [i \in DOMAIN store \cup {meta.id} |-> IF i = meta.id THEN meta ELSE store[i]]

RECURSIVE SortedIds(_)
SortedIds(S) ==
  IF S = {} THEN <<>>
  ELSE LET m == CHOOSE x \in S : \A y \in S : x <= y
       IN <<m>> \o SortedIds(S \ {m})

\* TxStateManager::GetTransactionsByStatus(chain_id, status, nullopt): the ids
\* of the matching stored transactions; chain_id = "" stands for std::nullopt.
GetTransactionsByStatus(store, chain_id, status) ==
  SortedIds({i \in DOMAIN store :
               /\ store[i].status = status
               /\ (chain_id = "" \/ store[i].chain_id = chain_id)})

\* SolanaTxMeta::IsRetriable
IsRetriable(meta) == meta.retriable

\* SolanaMessage::UsesDurableNonce
UsesDurableNonce(meta) == meta.uses_durable_nonce

\* SolanaTransaction::GetBase64EncodedMessage: the encoding of the message,
\* which carries the message's recent blockhash.
GetBase64EncodedMessage(meta) ==
  [recent_blockhash |-> meta.recent_blockhash,
   uses_durable_nonce |-> meta.uses_durable_nonce]

\* TxMeta::GenerateMetaID: an id no transaction has had before.
GenerateMetaID == nextId

\* --------------------------------------------------------------- helpers
RECURSIVE BagOfSeq(_)
BagOfSeq(s) ==
  IF s = <<>> THEN EmptyBag ELSE SetToBag({Head(s)}) (+) BagOfSeq(Tail(s))

Requests == BagToSet(inflight)
CanIssue(n) == BagCardinality(inflight) + n <= MaxInFlight
\* The sequence the manager runs on is idle (the task before has returned)
\* and the manager is alive: a bound continuation may run.
Ready == ~destroyed /\ last = NoLast
\* The manager may be called from outside.
Callable == Ready /\ calls < MaxCalls

Callback(name, success, error, error_message, id) ==
  [NoCallback EXCEPT !.name = name, !.success = success, !.error = error,
                     !.error_message = error_message, !.id = id]

\* One step of the manager: the request answered (NoReq for a call from
\* outside), the store afterwards, the requests issued and the step record.
Effect(answered, store, sent, rec) ==
  /\ txs' = store
  /\ calls' = IF answered = NoReq THEN calls + 1 ELSE calls
  /\ inflight' = (IF answered = NoReq THEN inflight
                  ELSE inflight (-) SetToBag({answered})) (+) BagOfSeq(sent)
  /\ last' = [rec EXCEPT !.req = answered, !.sent = sent]
  /\ UNCHANGED <<input, output>>

\* solana_tx_manager.cc:173-181, 293-301, 1002-1008: DCHECK(false) followed by
\* the error callback. Where DCHECKs are compiled in, the assertion ends the
\* process, and the manager with it, before the callback; where they are
\* not, the callback is run and the function returns.
TransactionShouldBeFound(answered, rec, cb) ==
  \E fatal \in BOOLEAN :
    /\ Effect(answered, txs, <<>>,
         IF fatal THEN [rec EXCEPT !.aborted = TRUE] ELSE [rec EXCEPT !.cb = cb])
    /\ destroyed' = fatal

\* ------------------------------------------------ AddUnapprovedTransaction
\* Variant of NewUnapprovedMeta: the chain id is not set on the meta.
NewUnapprovedMeta_ChainUnset(id, chain_id, data) ==
  [NoMeta EXCEPT !.id = id, !.status = "Unapproved",
                 !.recent_blockhash = data.recent_blockhash,
                 !.uses_durable_nonce = data.uses_durable_nonce,
                 !.sign_tx_param = data.sign_tx_param,
                 !.raw_signatures = data.raw_signatures,
                 !.retriable = data.retriable]

\* solana_tx_manager.cc:153-159
NewUnapprovedMeta(id, chain_id, data) ==
  [NoMeta EXCEPT !.id = id, !.chain_id = chain_id, !.status = "Unapproved",
                 !.recent_blockhash = data.recent_blockhash,
                 !.uses_durable_nonce = data.uses_durable_nonce,
                 !.sign_tx_param = data.sign_tx_param,
                 !.raw_signatures = data.raw_signatures,
                 !.retriable = data.retriable]

AddUnapprovedTransaction ==
  /\ Callable
  /\ \E valid \in BOOLEAN :
       IF ~valid
       THEN \* FromSolanaTxData failed
            /\ Effect(NoReq, txs, <<>>,
                 [NoLast EXCEPT !.op = "AddUnapprovedTransaction",
                    !.cb = Callback("AddUnapprovedTransaction", FALSE, "",
                                    IDS_WALLET_SEND_TRANSACTION_CONVERT_TX_DATA, 0)])
            /\ UNCHANGED <<nextId, destroyed>>
       ELSE /\ nextId <= MaxTx
            /\ \E chain_id \in Chains, data \in TxDataInputs, ok \in BOOLEAN :
                 LET meta == NewUnapprovedMeta(GenerateMetaID, chain_id, data)
                     rec == [NoLast EXCEPT !.op = "AddUnapprovedTransaction",
                                           !.chain_id = chain_id]
                 IN IF ok
                    THEN Effect(NoReq, AddOrUpdateTx(txs, meta), <<>>,
                           [rec EXCEPT !.writes = <<meta>>,
                              !.cb = Callback("AddUnapprovedTransaction", TRUE, "", "", meta.id)])
                    ELSE Effect(NoReq, txs, <<>>,
                           [rec EXCEPT !.rejected = <<meta>>,
                              !.cb = Callback("AddUnapprovedTransaction", FALSE, "",
                                              IDS_WALLET_INTERNAL_ERROR, 0)])
            /\ nextId' = nextId + 1
            /\ UNCHANGED destroyed

\* ------------------------------------------------------ ApproveTransaction
\* Variant of ApproveTransactionRequest: the latest blockhash is fetched
\* whether or not the message has one.
ApproveTransactionRequest_AlwaysLatest(meta) ==
  [NoReq EXCEPT !.rpc = "GetLatestBlockhash",
                !.handler = "OnGetLatestBlockhash",
                !.chain_id = meta.chain_id, !.meta = meta,
                !.callback = "ApproveTransaction"]

\* solana_tx_manager.cc:183-200: the fetch issued for a stored meta, with the
\* continuation and the copy of the meta bound to it.
ApproveTransactionRequest(meta) ==
  IF meta.recent_blockhash = ""
  THEN [NoReq EXCEPT !.rpc = "GetLatestBlockhash",
                     !.handler = "OnGetLatestBlockhash",
                     !.chain_id = meta.chain_id, !.meta = meta,
                     !.callback = "ApproveTransaction"]
  ELSE [NoReq EXCEPT !.rpc = "GetSolanaBlockHeight",
                     !.handler = "OnGetBlockHeightForBlockhash",
                     !.chain_id = meta.chain_id, !.meta = meta,
                     !.callback = "ApproveTransaction",
                     !.blockhash = meta.recent_blockhash]

ApproveTransaction ==
  /\ Callable
  /\ \E tx_meta_id \in Ids :
       LET rec == [NoLast EXCEPT !.op = "ApproveTransaction", !.arg = tx_meta_id]
       IN IF ~HasTx(txs, tx_meta_id)
          THEN TransactionShouldBeFound(NoReq, rec,
                 Callback("ApproveTransaction", FALSE, kInternalError,
                          IDS_BRAVE_WALLET_TRANSACTION_NOT_FOUND, 0))
          ELSE /\ CanIssue(1)
               /\ Effect(NoReq, txs, <<ApproveTransactionRequest(txs[tx_meta_id])>>,
                    [rec EXCEPT !.before = txs[tx_meta_id]])
               /\ UNCHANGED destroyed
  /\ UNCHANGED nextId

\* solana_tx_manager.cc:217-218
LastValidBlockHeightFor(block_height) == block_height + kValidBlockHeightThreshold

\* Variant of ApprovedMeta: the status is left as it was.
ApprovedMeta_StatusKept(meta, latest_blockhash, last_valid_block_height) ==
  [meta EXCEPT !.recent_blockhash = latest_blockhash,
               !.last_valid_block_height = last_valid_block_height]

\* solana_tx_manager.cc:235-237
ApprovedMeta(meta, latest_blockhash, last_valid_block_height) ==
  [meta EXCEPT !.status = "Approved",
               !.recent_blockhash = latest_blockhash,
               !.last_valid_block_height = last_valid_block_height]

\* solana_tx_manager.cc:247-253 and 1104-1109
SendSolanaTransactionRequest(meta, callback) ==
  [NoReq EXCEPT !.rpc = "SendSolanaTransaction",
                !.handler = "OnSendSolanaTransaction",
                !.chain_id = meta.chain_id, !.tx_meta_id = meta.id,
                !.callback = callback]

\* Variant of FetchErrorCallback: the RPC error is replaced by an internal one.
FetchErrorCallback_Internal(req, result) ==
  Callback(req.callback, FALSE, kInternalError, IDS_WALLET_INTERNAL_ERROR, 0)

\* solana_tx_manager.cc:210-214 and 228-232: the callback run when the fetch
\* of the approval failed.
FetchErrorCallback(req, result) ==
  Callback(req.callback, FALSE, result.error, result.error_message, 0)

\* SolanaTxManager::OnGetLatestBlockhash after its arguments are fixed; also
\* the tail of OnGetBlockHeightForBlockhash (solana_tx_manager.cc:217-219).
OnGetLatestBlockhashBody(req, rec, latest_blockhash, last_valid_block_height, result) ==
  IF result.error # kSuccess
  THEN Effect(req, txs, <<>>, [rec EXCEPT !.cb = FetchErrorCallback(req, result)])
  ELSE \E ok \in BOOLEAN :
         LET meta == ApprovedMeta(req.meta, latest_blockhash, last_valid_block_height)
         IN IF ~ok
            THEN Effect(req, txs, <<>>,
                   [rec EXCEPT !.rejected = <<meta>>,
                      !.cb = Callback(req.callback, FALSE, kInternalError,
                                      IDS_WALLET_INTERNAL_ERROR, 0)])
            ELSE Effect(req, AddOrUpdateTx(txs, meta),
                        <<SendSolanaTransactionRequest(meta, req.callback)>>,
                        [rec EXCEPT !.writes = <<meta>>])

OnGetLatestBlockhash ==
  /\ Ready
  /\ \E req \in Requests :
       /\ req.handler = "OnGetLatestBlockhash"
       /\ \E result \in RpcResults :
            IF result.error = kSuccess
            THEN \E bh \in LatestBlockhashes, lvbh \in LastValidBlockHeights :
                   OnGetLatestBlockhashBody(req,
                     [NoLast EXCEPT !.op = "OnGetLatestBlockhash", !.result = result,
                                    !.blockhash = bh, !.height = lvbh],
                     bh, lvbh, result)
            ELSE OnGetLatestBlockhashBody(req,
                     [NoLast EXCEPT !.op = "OnGetLatestBlockhash", !.result = result],
                     "", 0, result)
  /\ UNCHANGED <<nextId, destroyed>>

OnGetBlockHeightForBlockhash ==
  /\ Ready
  /\ \E req \in Requests :
       /\ req.handler = "OnGetBlockHeightForBlockhash"
       /\ \E result \in RpcResults :
            IF result.error # kSuccess
            THEN Effect(req, txs, <<>>,
                   [NoLast EXCEPT !.op = "OnGetBlockHeightForBlockhash", !.result = result,
                      !.cb = FetchErrorCallback(req, result)])
            ELSE \E block_height \in BlockHeights :
                   OnGetLatestBlockhashBody(req,
                     [NoLast EXCEPT !.op = "OnGetBlockHeightForBlockhash",
                                    !.result = result, !.height = block_height],
                     req.blockhash, LastValidBlockHeightFor(block_height), RpcOk)
  /\ UNCHANGED <<nextId, destroyed>>

\* ------------------------------------------------ OnSendSolanaTransaction
\* Variant of SentMeta: the returned signature is not recorded.
SentMeta_HashDropped(meta, success, tx_hash) ==
  IF success
  THEN [meta EXCEPT !.status = "Submitted", !.submitted_time = TimeNow]
  ELSE [meta EXCEPT !.status = "Error"]

\* solana_tx_manager.cc:303-311
SentMeta(meta, success, tx_hash) ==
  IF success
  THEN [meta EXCEPT !.status = "Submitted", !.submitted_time = TimeNow,
                    !.tx_hash = tx_hash]
  ELSE [meta EXCEPT !.status = "Error"]

\* solana_tx_manager.cc:326-328: the success flag of the final callback.
SendCallbackSuccess(result) == result.error_message = ""

\* solana_tx_manager.cc:336-339 and 350-353
GetSolanaBlockHeightRequest(chain_id) ==
  [NoReq EXCEPT !.rpc = "GetSolanaBlockHeight", !.handler = "OnGetBlockHeight",
                !.chain_id = chain_id]

RECURSIVE DistinctChains(_, _, _)
\* solana_tx_manager.cc:343-355: the chains of the pending transactions, each
\* once, in the order the transactions are listed.
DistinctChains(store, ids, seen) ==
  IF ids = <<>> THEN <<>>
  ELSE LET c == store[Head(ids)].chain_id
       IN IF c \in seen
          THEN DistinctChains(store, Tail(ids), seen)
          ELSE <<c>> \o DistinctChains(store, Tail(ids), seen \cup {c})

\* Variant of PendingChainsToQuery: with no chain given, the chain of every
\* pending transaction is asked about, also one asked about already.
PendingChainsToQuery_PerTransaction(store, chain_id) ==
  IF chain_id # ""
  THEN <<chain_id>>
  ELSE [k \in DOMAIN GetTransactionsByStatus(store, "", "Submitted") |->
          store[GetTransactionsByStatus(store, "", "Submitted")[k]].chain_id]

\* SolanaTxManager::UpdatePendingTransactions: the chains whose block height
\* is asked for; chain_id = "" stands for std::nullopt.
PendingChainsToQuery(store, chain_id) ==
  IF chain_id # ""
  THEN <<chain_id>>
  ELSE DistinctChains(store, GetTransactionsByStatus(store, "", "Submitted"), {})

UpdatePendingTransactions(store, chain_id) ==
  [c \in DOMAIN PendingChainsToQuery(store, chain_id) |->
     GetSolanaBlockHeightRequest(PendingChainsToQuery(store, chain_id)[c])]

OnSendSolanaTransaction ==
  /\ Ready
  /\ \E req \in Requests :
       /\ req.handler = "OnSendSolanaTransaction"
       /\ \E result \in RpcResults :
          \E tx_hash \in (IF result.error = kSuccess THEN TxHashes ELSE {""}) :
            LET rec == [NoLast EXCEPT !.op = "OnSendSolanaTransaction",
                                      !.result = result, !.tx_hash = tx_hash]
                success == result.error = kSuccess
            IN IF ~HasTx(txs, req.tx_meta_id)
               THEN TransactionShouldBeFound(req, rec,
                      Callback(req.callback, FALSE, kInternalError,
                               IDS_BRAVE_WALLET_TRANSACTION_NOT_FOUND, 0))
               ELSE /\ UNCHANGED destroyed
                    /\ \E ok \in BOOLEAN :
                      LET old == txs[req.tx_meta_id]
                          meta == SentMeta(old, success, tx_hash)
                          store == AddOrUpdateTx(txs, meta)
                      IN IF ~ok
                         THEN Effect(req, txs, <<>>,
                                [rec EXCEPT !.before = old, !.rejected = <<meta>>,
                                   !.cb = Callback(req.callback, FALSE, kInternalError,
                                                   IDS_WALLET_INTERNAL_ERROR, 0)])
                         ELSE Effect(req, store,
                                IF success
                                THEN UpdatePendingTransactions(store, meta.chain_id)
                                ELSE <<>>,
                                [rec EXCEPT !.before = old, !.writes = <<meta>>,
                                   !.cb = Callback(req.callback, SendCallbackSuccess(result),
                                                   result.error, result.error_message, 0)])
  /\ UNCHANGED nextId

\* ------------------------------------------------------- reconciliation
\* SolanaTxManager::OnLatestBlockhashUpdated
OnLatestBlockhashUpdated ==
  /\ Callable
  /\ \E chain_id \in Chains :
       /\ CanIssue(1)
       /\ Effect(NoReq, txs, UpdatePendingTransactions(txs, chain_id),
            [NoLast EXCEPT !.op = "OnLatestBlockhashUpdated"])
  /\ UNCHANGED <<nextId, destroyed>>

\* SolanaTxManager::UpdatePendingTransactions(std::nullopt)
UpdatePendingTransactionsAllChains ==
  /\ Callable
  /\ CanIssue(Len(UpdatePendingTransactions(txs, "")))
  /\ Effect(NoReq, txs, UpdatePendingTransactions(txs, ""),
       [NoLast EXCEPT !.op = "UpdatePendingTransactions"])
  /\ UNCHANGED <<nextId, destroyed>>

\* The signatures asked about (solana_tx_manager.cc:370-375).
TxSignatures(store, tx_meta_ids) ==
  [i \in DOMAIN tx_meta_ids |-> store[tx_meta_ids[i]].tx_hash]

\* solana_tx_manager.cc:368-380
GetSolanaSignatureStatusesRequest(store, chain_id, block_height) ==
  [NoReq EXCEPT !.rpc = "GetSolanaSignatureStatuses",
                !.handler = "OnGetSignatureStatuses",
                !.chain_id = chain_id,
                !.tx_meta_ids = GetTransactionsByStatus(store, chain_id, "Submitted"),
                !.tx_signatures =
                  TxSignatures(store,
                    GetTransactionsByStatus(store, chain_id, "Submitted")),
                !.block_height = block_height]

OnGetBlockHeight ==
  /\ Ready
  /\ \E req \in Requests :
       /\ req.handler = "OnGetBlockHeight"
       /\ \E result \in RpcResults :
            IF result.error # kSuccess
            THEN Effect(req, txs, <<>>,
                   [NoLast EXCEPT !.op = "OnGetBlockHeight", !.result = result])
            ELSE \E block_height \in BlockHeights :
                   Effect(req, txs,
                     <<GetSolanaSignatureStatusesRequest(txs, req.chain_id, block_height)>>,
                     [NoLast EXCEPT !.op = "OnGetBlockHeight", !.result = result,
                                    !.height = block_height])
  /\ UNCHANGED <<nextId, destroyed>>

\* Variant of ShouldDrop: the comparison with the block height is turned round.
ShouldDrop_Flipped(meta, block_height) ==
  /\ meta.last_valid_block_height # 0
  /\ meta.last_valid_block_height > block_height

\* solana_tx_manager.cc:406-407: no signature status came back for the meta
\* and its validity window has passed.
ShouldDrop(meta, block_height) ==
  /\ meta.last_valid_block_height # 0
  /\ meta.last_valid_block_height < block_height

\* Variant of ReconciledStatus: a finalized status confirms before the error
\* field is looked at.
ReconciledStatus_FinalizedFirst(meta, status) ==
  IF status.confirmation_status = "finalized" THEN "Confirmed"
  ELSE IF status.err # "" THEN "Error"
  ELSE meta.status

\* solana_tx_manager.cc:414-427: the lifecycle status a present signature
\* status leaves the meta with.
ReconciledStatus(meta, status) ==
  IF status.err # "" THEN "Error"
  ELSE IF status.confirmation_status = "finalized" THEN "Confirmed"
  ELSE meta.status

\* solana_tx_manager.cc:405-431: what one pass of the loop does with a stored
\* meta: whether AddOrUpdateTx is called, and with which meta.
SignatureStatusUpdate(meta, status, block_height) ==
  IF ~status.present
  THEN IF ShouldDrop(meta, block_height)
       THEN [write |-> TRUE, meta |-> [meta EXCEPT !.status = "Dropped"]]
       ELSE [write |-> FALSE, meta |-> meta]
  ELSE IF status.err # "" \/ status.confirmation_status # ""
  THEN [write |-> TRUE,
        meta |-> [meta EXCEPT
                    !.signature_status = status,
                    !.status = ReconciledStatus(meta, status),
                    !.confirmed_time =
                      IF ReconciledStatus(meta, status) = "Confirmed"
                         /\ status.err = ""
                      THEN TimeNow ELSE @]]
  ELSE [write |-> FALSE, meta |-> meta]

RECURSIVE SignatureStatusLoop(_, _, _, _, _, _)
\* solana_tx_manager.cc:398-432: the loop from index i on; oks[i] says whether
\* the store accepts the write of pass i. Yields the store and the metas
\* written and rejected, in order.
SignatureStatusLoop(acc, tx_meta_ids, signature_statuses, block_height, oks, i) ==
  IF i > Len(tx_meta_ids) THEN acc
  ELSE IF ~HasTx(acc.store, tx_meta_ids[i])
  THEN SignatureStatusLoop(acc, tx_meta_ids, signature_statuses, block_height, oks, i + 1)
  ELSE LET u == SignatureStatusUpdate(acc.store[tx_meta_ids[i]],
                                      signature_statuses[i], block_height)
           next == IF ~u.write THEN acc
                   ELSE IF oks[i]
                   THEN [acc EXCEPT !.store = AddOrUpdateTx(acc.store, u.meta),
                                    !.writes = Append(acc.writes, u.meta)]
                   ELSE [acc EXCEPT !.rejected = Append(acc.rejected, u.meta)]
       IN SignatureStatusLoop(next, tx_meta_ids, signature_statuses, block_height, oks, i + 1)

\* What the store may answer to the writes of one run of the loop: accept or
\* reject each (passes that write nothing have no answer to choose).
StoreAnswers(store, tx_meta_ids, signature_statuses, block_height) ==
  { oks \in [1..Len(tx_meta_ids) -> BOOLEAN] :
      \A i \in 1..Len(tx_meta_ids) :
        \/ oks[i]
        \/ /\ HasTx(store, tx_meta_ids[i])
           /\ SignatureStatusUpdate(store[tx_meta_ids[i]], signature_statuses[i],
                                    block_height).write }

\* The answers GetSolanaSignatureStatuses may give to n signatures: one entry
\* per signature, or a list of another length.
SignatureStatusAnswers(n) ==
  [1..n -> SignatureStatuses] \cup {[i \in 1..(n + 1) |-> NoSignatureStatus]}

\* Variant of SizesMatch: a list at least as long as the ids is worked through.
SizesMatch_Prefix(tx_meta_ids, signature_statuses) ==
  Len(tx_meta_ids) <= Len(signature_statuses)

\* solana_tx_manager.cc:394-396
SizesMatch(tx_meta_ids, signature_statuses) ==
  Len(tx_meta_ids) = Len(signature_statuses)

OnGetSignatureStatuses ==
  /\ Ready
  /\ \E req \in Requests :
       /\ req.handler = "OnGetSignatureStatuses"
       /\ \E result \in RpcResults :
            LET rec == [NoLast EXCEPT !.op = "OnGetSignatureStatuses", !.result = result]
            IN IF result.error # kSuccess
               THEN Effect(req, txs, <<>>, rec)
               ELSE \E signature_statuses \in SignatureStatusAnswers(Len(req.tx_meta_ids)) :
                      IF ~SizesMatch(req.tx_meta_ids, signature_statuses)
                      THEN Effect(req, txs, <<>>, [rec EXCEPT !.statuses = signature_statuses])
                      ELSE \E oks \in StoreAnswers(txs, req.tx_meta_ids,
                                                    signature_statuses, req.block_height) :
                             LET r == SignatureStatusLoop(
                                        [store |-> txs, writes |-> <<>>, rejected |-> <<>>],
                                        req.tx_meta_ids, signature_statuses,
                                        req.block_height, oks, 1)
                             IN Effect(req, r.store, <<>>,
                                  [rec EXCEPT !.statuses = signature_statuses,
                                              !.writes = r.writes,
                                              !.rejected = r.rejected])
  /\ UNCHANGED <<nextId, destroyed>>

\* -------------------------------------------------------- RetryTransaction
\* Variant of RetriedMeta: the blockhash is cleared for every message.
RetriedMeta_BlockhashCleared(meta, new_id) ==
  [meta EXCEPT
     !.recent_blockhash = "",
     !.sign_tx_param = IF ~UsesDurableNonce(meta) THEN FALSE ELSE @,
     !.last_valid_block_height = 0,
     !.id = new_id,
     !.status = "Unapproved",
     !.submitted_time = TimeUnset,
     !.confirmed_time = TimeUnset,
     !.tx_hash = "",
     !.signature_status = EmptySignatureStatus,
     !.raw_signatures = FALSE]

\* Variant of RetriedMeta: the validity window and the signature are kept.
RetriedMeta_WindowKept(meta, new_id) ==
  [meta EXCEPT
     !.recent_blockhash = IF ~UsesDurableNonce(meta) THEN "" ELSE @,
     !.sign_tx_param = IF ~UsesDurableNonce(meta) THEN FALSE ELSE @,
     !.id = new_id,
     !.status = "Unapproved",
     !.submitted_time = TimeUnset,
     !.confirmed_time = TimeUnset,
     !.signature_status = EmptySignatureStatus,
     !.raw_signatures = FALSE]

\* Variant of RetriedMeta: the id of the original is kept.
RetriedMeta_IdKept(meta, new_id) ==
  [meta EXCEPT
     !.recent_blockhash = IF ~UsesDurableNonce(meta) THEN "" ELSE @,
     !.sign_tx_param = IF ~UsesDurableNonce(meta) THEN FALSE ELSE @,
     !.last_valid_block_height = 0,
     !.status = "Unapproved",
     !.submitted_time = TimeUnset,
     !.confirmed_time = TimeUnset,
     !.tx_hash = "",
     !.signature_status = EmptySignatureStatus,
     !.raw_signatures = FALSE]

\* solana_tx_manager.cc:460-488: the meta RetryTransaction hands to the store.
RetriedMeta(meta, new_id) ==
  [meta EXCEPT
     !.recent_blockhash = IF ~UsesDurableNonce(meta) THEN "" ELSE @,
     !.sign_tx_param = IF ~UsesDurableNonce(meta) THEN FALSE ELSE @,
     !.last_valid_block_height = 0,
     !.id = new_id,
     !.status = "Unapproved",
     !.submitted_time = TimeUnset,
     !.confirmed_time = TimeUnset,
     !.tx_hash = "",
     !.signature_status = EmptySignatureStatus,
     !.raw_signatures = FALSE]

\* Variant of RetryRefusal: the retriable check is left out.
RetryRefusal_Unchecked(store, tx_meta_id) ==
  IF ~HasTx(store, tx_meta_id)
  THEN IDS_BRAVE_WALLET_TRANSACTION_NOT_FOUND
  ELSE ""

\* solana_tx_manager.cc:444-458: the error RetryTransaction answers with
\* before touching anything, "" when the retry goes ahead.
RetryRefusal(store, tx_meta_id) ==
  IF ~HasTx(store, tx_meta_id)
  THEN IDS_BRAVE_WALLET_TRANSACTION_NOT_FOUND
  ELSE IF ~IsRetriable(store[tx_meta_id])
  THEN IDS_BRAVE_WALLET_TRANSACTION_NOT_RETRIABLE
  ELSE ""

RetryTransaction ==
  /\ Callable
  /\ \E tx_meta_id \in Ids :
       LET rec == [NoLast EXCEPT !.op = "RetryTransaction", !.arg = tx_meta_id,
                     !.before = IF HasTx(txs, tx_meta_id) THEN txs[tx_meta_id] ELSE NoMeta]
       IN IF RetryRefusal(txs, tx_meta_id) # ""
          THEN /\ Effect(NoReq, txs, <<>>,
                    [rec EXCEPT !.cb = Callback("RetryTransaction", FALSE, "",
                                         RetryRefusal(txs, tx_meta_id), 0)])
               /\ UNCHANGED nextId
          ELSE /\ nextId <= MaxTx
               /\ nextId' = nextId + 1
               /\ \E ok \in BOOLEAN :
                    LET meta == RetriedMeta(txs[tx_meta_id], GenerateMetaID)
                    IN IF ok
                       THEN Effect(NoReq, AddOrUpdateTx(txs, meta), <<>>,
                              [rec EXCEPT !.writes = <<meta>>,
                                 !.cb = Callback("RetryTransaction", TRUE, "", "", meta.id)])
                       ELSE Effect(NoReq, txs, <<>>,
                              [rec EXCEPT !.rejected = <<meta>>,
                                 !.cb = Callback("RetryTransaction", FALSE, "",
                                                 IDS_WALLET_INTERNAL_ERROR, 0)])
  /\ UNCHANGED destroyed

\* ------------------------------------------ ProcessSolanaHardwareSignature
\* solana_tx_manager.cc:1094
HardwareApprovedMeta(meta) == [meta EXCEPT !.status = "Approved"]

ProcessSolanaHardwareSignature ==
  /\ Callable
  /\ \E tx_meta_id \in Ids :
       LET rec == [NoLast EXCEPT !.op = "ProcessSolanaHardwareSignature", !.arg = tx_meta_id]
           fail(msg) == Callback("ProcessSolanaHardwareSignature", FALSE, kInternalError, msg, 0)
       IN IF ~HasTx(txs, tx_meta_id)
          THEN Effect(NoReq, txs, <<>>,
                 [rec EXCEPT !.cb = fail(IDS_BRAVE_WALLET_TRANSACTION_NOT_FOUND)])
          ELSE \E signed \in BOOLEAN :
                 LET old == txs[tx_meta_id]
                     meta == HardwareApprovedMeta(old)
                 IN IF ~signed
                    THEN \* GetSignedTransactionBytes failed
                         Effect(NoReq, txs, <<>>,
                           [rec EXCEPT !.before = old, !.cb = fail(IDS_WALLET_INTERNAL_ERROR)])
                    ELSE \E ok \in BOOLEAN :
                           IF ~ok
                           THEN Effect(NoReq, txs, <<>>,
                                  [rec EXCEPT !.before = old, !.rejected = <<meta>>,
                                              !.cb = fail(IDS_WALLET_INTERNAL_ERROR)])
                           ELSE /\ CanIssue(1)
                                /\ Effect(NoReq, AddOrUpdateTx(txs, meta),
                                     <<SendSolanaTransactionRequest(meta,
                                          "ProcessSolanaHardwareSignature")>>,
                                     [rec EXCEPT !.before = old, !.writes = <<meta>>])
  /\ UNCHANGED <<nextId, destroyed>>

\* --------------------------------------------- GetTransactionMessageToSign
\* solana_tx_manager.cc:510-525
GetTransactionMessageToSignRequest(meta) ==
  IF meta.recent_blockhash = ""
  THEN [NoReq EXCEPT !.rpc = "GetLatestBlockhash",
                     !.handler = "OnGetLatestBlockhashHardware",
                     !.chain_id = meta.chain_id, !.meta = meta,
                     !.callback = "GetTransactionMessageToSign"]
  ELSE [NoReq EXCEPT !.rpc = "GetSolanaBlockHeight",
                     !.handler = "OnGetBlockHeightForBlockhashHardware",
                     !.chain_id = meta.chain_id, !.meta = meta,
                     !.callback = "GetTransactionMessageToSign",
                     !.blockhash = meta.recent_blockhash]

GetTransactionMessageToSign ==
  /\ Callable
  /\ \E tx_meta_id \in Ids :
       LET rec == [NoLast EXCEPT !.op = "GetTransactionMessageToSign", !.arg = tx_meta_id]
       IN IF ~HasTx(txs, tx_meta_id)
          THEN Effect(NoReq, txs, <<>>,
                 [rec EXCEPT !.cb = Callback("GetTransactionMessageToSign", FALSE, "", "", 0)])
          ELSE /\ CanIssue(1)
               /\ Effect(NoReq, txs, <<GetTransactionMessageToSignRequest(txs[tx_meta_id])>>,
                    [rec EXCEPT !.before = txs[tx_meta_id]])
  /\ UNCHANGED <<nextId, destroyed>>

\* Variant of HardwareMessageMeta: the window is not written with the
\* blockhash.
HardwareMessageMeta_BlockhashOnly(meta, latest_blockhash, last_valid_block_height) ==
  [meta EXCEPT !.recent_blockhash = latest_blockhash]

\* solana_tx_manager.cc:268-269
HardwareMessageMeta(meta, latest_blockhash, last_valid_block_height) ==
  [meta EXCEPT !.recent_blockhash = latest_blockhash,
               !.last_valid_block_height = last_valid_block_height]

\* SolanaTxManager::OnGetLatestBlockhashHardware after its arguments are
\* fixed; also the tail of OnGetBlockHeightForBlockhashHardware.
OnGetLatestBlockhashHardwareBody(req, rec, latest_blockhash, last_valid_block_height, result) ==
  LET null == Callback(req.callback, FALSE, "", "", 0)
  IN IF result.error # kSuccess
     THEN Effect(req, txs, <<>>, [rec EXCEPT !.cb = null])
     ELSE \E ok \in BOOLEAN :
            LET meta == HardwareMessageMeta(req.meta, latest_blockhash,
                                            last_valid_block_height)
            IN IF ~ok
               THEN Effect(req, txs, <<>>, [rec EXCEPT !.rejected = <<meta>>, !.cb = null])
               ELSE \E serialized \in BOOLEAN :
                      \* GetSerializedMessage yields the message bytes or nothing
                      Effect(req, AddOrUpdateTx(txs, meta), <<>>,
                        [rec EXCEPT !.writes = <<meta>>,
                           !.cb = Callback(req.callback, serialized, "", "", 0)])

OnGetLatestBlockhashHardware ==
  /\ Ready
  /\ \E req \in Requests :
       /\ req.handler = "OnGetLatestBlockhashHardware"
       /\ \E result \in RpcResults :
            IF result.error = kSuccess
            THEN \E bh \in LatestBlockhashes, lvbh \in LastValidBlockHeights :
                   OnGetLatestBlockhashHardwareBody(req,
                     [NoLast EXCEPT !.op = "OnGetLatestBlockhashHardware", !.result = result,
                                    !.blockhash = bh, !.height = lvbh],
                     bh, lvbh, result)
            ELSE OnGetLatestBlockhashHardwareBody(req,
                     [NoLast EXCEPT !.op = "OnGetLatestBlockhashHardware", !.result = result],
                     "", 0, result)
  /\ UNCHANGED <<nextId, destroyed>>

OnGetBlockHeightForBlockhashHardware ==
  /\ Ready
  /\ \E req \in Requests :
       /\ req.handler = "OnGetBlockHeightForBlockhashHardware"
       /\ \E result \in RpcResults :
            IF result.error # kSuccess
            THEN Effect(req, txs, <<>>,
                   [NoLast EXCEPT !.op = "OnGetBlockHeightForBlockhashHardware",
                      !.result = result,
                      !.cb = Callback(req.callback, FALSE, "", "", 0)])
            ELSE \E block_height \in BlockHeights :
                   OnGetLatestBlockhashHardwareBody(req,
                     [NoLast EXCEPT !.op = "OnGetBlockHeightForBlockhashHardware",
                                    !.result = result, !.height = block_height],
                     req.blockhash, LastValidBlockHeightFor(block_height), RpcOk)
  /\ UNCHANGED <<nextId, destroyed>>

\* -------------------------------------------------------- GetEstimatedTxFee
\* The fees GetSolanaFeeForMessage may answer with.
TxFees == {0, 5000}

\* The GetEstimatedTxFeeCallback run with (tx_fee, error, error_message).
FeeCallback(tx_fee, error, error_message) ==
  [NoCallback EXCEPT !.name = "GetEstimatedTxFee", !.tx_fee = tx_fee,
                     !.error = error, !.error_message = error_message]

\* solana_tx_manager.cc:1010-1016
GetEstimatedTxFeeRequest(meta) ==
  [NoReq EXCEPT !.rpc = "GetLatestBlockhash",
                !.handler = "OnGetLatestBlockhashForGetEstimatedTxFee",
                !.chain_id = meta.chain_id, !.meta = meta,
                !.callback = "GetEstimatedTxFee"]

GetEstimatedTxFee ==
  /\ Callable
  /\ \E tx_meta_id \in Ids :
       LET rec == [NoLast EXCEPT !.op = "GetEstimatedTxFee", !.arg = tx_meta_id]
       IN IF ~HasTx(txs, tx_meta_id)
          THEN TransactionShouldBeFound(NoReq, rec,
                 FeeCallback(0, kInternalError, IDS_BRAVE_WALLET_TRANSACTION_NOT_FOUND))
          ELSE /\ CanIssue(1)
               /\ Effect(NoReq, txs, <<GetEstimatedTxFeeRequest(txs[tx_meta_id])>>,
                    [rec EXCEPT !.before = txs[tx_meta_id]])
               /\ UNCHANGED destroyed
  /\ UNCHANGED nextId

\* Variant of FeeMessageMeta: a blockhash the message already has is reused.
FeeMessageMeta_Reused(meta, latest_blockhash, last_valid_block_height) ==
  IF meta.recent_blockhash # "" THEN meta
  ELSE [meta EXCEPT !.recent_blockhash = latest_blockhash,
                    !.last_valid_block_height = last_valid_block_height]

\* solana_tx_manager.cc:1031-1032: the bound copy with the fetched blockhash.
FeeMessageMeta(meta, latest_blockhash, last_valid_block_height) ==
  [meta EXCEPT !.recent_blockhash = latest_blockhash,
               !.last_valid_block_height = last_valid_block_height]

\* solana_tx_manager.cc:1033-1038
GetSolanaFeeForMessageRequest(meta) ==
  [NoReq EXCEPT !.rpc = "GetSolanaFeeForMessage",
                !.handler = "OnGetFeeForMessage",
                !.chain_id = meta.chain_id,
                !.message = GetBase64EncodedMessage(meta),
                !.callback = "GetEstimatedTxFee"]

\* Variant of FeeEstimationStore: the copy with the fetched blockhash is saved.
FeeEstimationStore_Saved(store, meta) == AddOrUpdateTx(store, meta)

\* solana_tx_manager.cc:1031-1038: the store after the blockhash for pricing
\* is applied to the bound copy; AddOrUpdateTx is not called.
FeeEstimationStore(store, meta) == store

OnGetLatestBlockhashForGetEstimatedTxFee ==
  /\ Ready
  /\ \E req \in Requests :
       /\ req.handler = "OnGetLatestBlockhashForGetEstimatedTxFee"
       /\ \E result \in RpcResults :
            LET rec == [NoLast EXCEPT !.op = "OnGetLatestBlockhashForGetEstimatedTxFee",
                                      !.result = result]
            IN IF result.error # kSuccess
               THEN Effect(req, txs, <<>>,
                      [rec EXCEPT !.cb = FeeCallback(0, result.error, result.error_message)])
               ELSE \E bh \in LatestBlockhashes, lvbh \in LastValidBlockHeights :
                      Effect(req,
                        FeeEstimationStore(txs, FeeMessageMeta(req.meta, bh, lvbh)),
                        <<GetSolanaFeeForMessageRequest(FeeMessageMeta(req.meta, bh, lvbh))>>,
                        [rec EXCEPT !.blockhash = bh, !.height = lvbh])
  /\ UNCHANGED <<nextId, destroyed>>

\* solana_tx_manager.cc:1041-1046
OnGetFeeForMessage ==
  /\ Ready
  /\ \E req \in Requests :
       /\ req.handler = "OnGetFeeForMessage"
       /\ \E result \in RpcResults :
          \E tx_fee \in (IF result.error = kSuccess THEN TxFees ELSE {0}) :
            Effect(req, txs, <<>>,
              [NoLast EXCEPT !.op = "OnGetFeeForMessage", !.result = result,
                 !.cb = FeeCallback(tx_fee, result.error, result.error_message)])
  /\ UNCHANGED <<nextId, destroyed>>

\* ---------------------------------------- DecodeMerkleTreeAuthorityAndDepth
kSolanaPubkeySize == 32

\* Base58Encode of a byte string and SolanaAddress::FromBase58 of the text:
\* the text stands for the bytes it encodes; an address has 32 bytes.
Base58Encode(bytes) == [base58 |-> bytes]

FromBase58(text) ==
  IF Len(text.base58) = kSolanaPubkeySize
  THEN [present |-> TRUE, bytes |-> text.base58]
  ELSE [present |-> FALSE, bytes |-> <<>>]

\* std::nullopt of the byte readers.
NoRead == [present |-> FALSE, value |-> 0, offset |-> 0]

\* solana_tx_manager.cc:40-48. offset counts the bytes already consumed.
DecodeUint8(data, offset) ==
  IF offset >= Len(data) \/ Len(data) - offset < 1
  THEN NoRead
  ELSE [present |-> TRUE, value |-> data[offset + 1], offset |-> offset + 1]

\* solana_tx_manager.cc:50-68: four bytes, little endian.
DecodeUint32(data, offset) ==
  IF offset >= Len(data) \/ Len(data) - offset < 4
  THEN NoRead
  ELSE [present |-> TRUE,
        value |-> data[offset + 1] + 256 * data[offset + 2]
                  + 65536 * data[offset + 3] + 16777216 * data[offset + 4],
        offset |-> offset + 4]

\* solana_tx_manager.cc:89-101
DecodePublicKey(data, offset) ==
  IF offset >= Len(data) \/ Len(data) - offset < kSolanaPubkeySize
  THEN NoRead
  ELSE [present |-> TRUE,
        value |-> Base58Encode(SubSeq(data, offset + 1, offset + kSolanaPubkeySize)),
        offset |-> offset + kSolanaPubkeySize]

\* The greatest k with 2^k <= bytes / 32 + 2, from k upwards.
RECURSIVE FloorLog2(_, _)
FloorLog2(canopy_byte_length, k) ==
  IF 32 * 2^(k + 1) <= canopy_byte_length + 64
  THEN FloorLog2(canopy_byte_length, k + 1)
  ELSE k

\* solana_tx_manager.cc:909-918 when offset is past the end of the data:
\* data.size() - offset wraps to 2^64 minus the shortfall, and for every
\* shortfall a buffer of this model can have std::log2(that / 32.0 + 2) - 1
\* is 58 after the conversion to uint32_t.
WrappedCanopyDepth == 58

\* Variant of CanopyDepth: the final "- 1" of the canopy formula is left out.
CanopyDepth_NoOffset(size, offset) ==
  IF size = offset THEN 0
  ELSE IF size < offset THEN WrappedCanopyDepth
  ELSE FloorLog2(size - offset, 1)

\* solana_tx_manager.cc:909-918
CanopyDepth(size, offset) ==
  IF size = offset THEN 0
  ELSE IF size < offset THEN WrappedCanopyDepth
  ELSE FloorLog2(size - offset, 1) - 1

\* Variant of SkippedAfterAuthority: the sequence number, the active index
\* and the buffer size at the head of the tree are not skipped.
SkippedAfterAuthority_NoTreeHead(max_buffer_size, max_depth) ==
  (8 + 6)
  + max_buffer_size * (32 + 32 * max_depth + 4 + 4)
  + (32 * max_depth + 32 + 4 + 4)

\* solana_tx_manager.cc:824, 842-844, 873-881, 897-898: the bytes skipped
\* after the authority without looking at the length of the data.
SkippedAfterAuthority(max_buffer_size, max_depth) ==
  (8 + 6) + (8 + 8 + 8)
  + max_buffer_size * (32 + 32 * max_depth + 4 + 4)
  + (32 * max_depth + 32 + 4 + 4)

NoMerkleTree == [present |-> FALSE, canopy_depth |-> 0, authority |-> <<>>]

\* solana_tx_manager.cc:782-907: offset when the canopy is reached, for data
\* whose header reads all succeed.
CanopyOffset(data) ==
  LET compression_account_type == DecodeUint8(data, 0)
      version == DecodeUint8(data, compression_account_type.offset)
      max_buffer_size == DecodeUint32(data, version.offset)
      max_depth == DecodeUint32(data, max_buffer_size.offset)
      authority == DecodePublicKey(data, max_depth.offset)
  IN authority.offset
     + SkippedAfterAuthority(max_buffer_size.value, max_depth.value)

\* solana_tx_manager.cc:909, data.size() - offset in size_t: the difference,
\* or, when offset is past the end, 2^64 minus the shortfall (wrapped, with
\* the shortfall as bytes).
CanopyByteLength(size, offset) ==
  IF size >= offset
  THEN [wrapped |-> FALSE, bytes |-> size - offset]
  ELSE [wrapped |-> TRUE, bytes |-> offset - size]

\* solana_tx_manager.cc:777-921
DecodeMerkleTreeAuthorityAndDepth(data) ==
  LET compression_account_type == DecodeUint8(data, 0)
      version == DecodeUint8(data, compression_account_type.offset)
      max_buffer_size == DecodeUint32(data, version.offset)
      max_depth == DecodeUint32(data, max_buffer_size.offset)
      authority == DecodePublicKey(data, max_depth.offset)
      authority_address == FromBase58(authority.value)
      offset == CanopyOffset(data)
  IN IF ~compression_account_type.present THEN NoMerkleTree
     ELSE IF compression_account_type.value # 1 THEN NoMerkleTree
     ELSE IF ~version.present THEN NoMerkleTree
     ELSE IF version.value # 0 THEN NoMerkleTree
     ELSE IF ~max_buffer_size.present THEN NoMerkleTree
     ELSE IF ~max_depth.present THEN NoMerkleTree
     ELSE IF ~authority.present THEN NoMerkleTree
     ELSE IF ~authority_address.present THEN NoMerkleTree
     ELSE [present |-> TRUE,
           canopy_depth |-> CanopyDepth(Len(data), offset),
           authority |-> authority_address.bytes]

\* A Merkle-tree account buffer of len bytes: account type, version,
\* max_buffer_size and max_depth (low byte; the higher ones 0), an authority
\* of 32 distinct bytes at offset 10, and zeroes elsewhere.
MerkleBuffer(type, version, max_buffer_size, max_depth, len) ==
  [i \in 1..len |->
     IF i = 1 THEN type
     ELSE IF i = 2 THEN version
     ELSE IF i = 3 THEN max_buffer_size
     ELSE IF i = 7 THEN max_depth
     ELSE IF i \in 11..42 THEN 100 + (i - 10)
     ELSE 0]

\* The length of the layout up to the canopy.
MerkleLayout(max_buffer_size, max_depth) ==
  42 + SkippedAfterAuthority(max_buffer_size, max_depth)

\* Lengths that cut the buffer inside the header, inside the tree, at the end
\* of the tree, and after canopies of several sizes.
BufferLengths(max_buffer_size, max_depth) ==
  {0, 1, 2, 5, 6, 9, 10, 41, 42, 43, 56, 80}
  \cup {MerkleLayout(max_buffer_size, max_depth) + b :
          b \in {-1, 0, 1, 31, 32, 63, 64, 65, 191, 192, 193, 448}}

MerkleBuffers ==
  UNION { { MerkleBuffer(type, version, mbs, md, len) :
              type \in {0, 1, 2}, version \in {0, 1},
              len \in BufferLengths(mbs, md) } :
          mbs \in 0..MaxHeaderWord, md \in 0..MaxHeaderWord }

\* The decoder applied to one buffer.
DecodeMerkleTreeAuthorityAndDepthCall ==
  /\ input.fn = "DecodeMerkleTreeAuthorityAndDepth"
  /\ ~output.done
  /\ output' = [done |-> TRUE,
                result |-> DecodeMerkleTreeAuthorityAndDepth(input.data),
                canopy_byte_length |->
                  IF DecodeMerkleTreeAuthorityAndDepth(input.data).present
                  THEN CanopyByteLength(Len(input.data), CanopyOffset(input.data))
                  ELSE CanopyByteLength(0, 0)]
  /\ UNCHANGED <<txs, nextId, inflight, calls, destroyed, last, input>>

InitDecode ==
  /\ txs = <<>>
  /\ nextId = 1
  /\ inflight = EmptyBag
  /\ calls = 0
  /\ destroyed = FALSE
  /\ last = NoLast
  /\ input \in {[fn |-> "DecodeMerkleTreeAuthorityAndDepth", data |-> data] :
                  data \in MerkleBuffers}
  /\ output = NoOutput

NextDecode ==
  \/ DecodeMerkleTreeAuthorityAndDepthCall

SpecDecode == InitDecode /\ [][NextDecode]_vars

\* ------------------------------------- MakeBubbleGumProgramTransferTxData
\* The address whose 32 bytes are all b.
AddressOf(b) == Base58Encode([i \in 1..kSolanaPubkeySize |-> b])

\* Base58Decode(text, &bytes, len): the bytes when there are exactly len.
Base58Decode(text, len) ==
  IF Len(text.base58) = len
  THEN [present |-> TRUE, bytes |-> text.base58]
  ELSE [present |-> FALSE, bytes |-> <<>>]

\* An unsigned integer is the sequence of its 16-bit words, the least
\* significant first: four words for uint64_t, two for uint32_t. This is
\* the uint64_t of a number below 2^31.
Uint64(n) == <<n % 65536, n \div 65536, 0, 0>>

\* static_cast<uint32_t> of a uint64_t: the two low words; the high ones
\* are dropped.
StaticCastUint32(val) == SubSeq(val, 1, 2)

\* Variant of UintToLEBytes: the bytes of each word the other way round.
UintToLEBytes_Swapped(val) ==
  [i \in 1..(2 * Len(val)) |->
     IF i % 2 = 1 THEN val[(i + 1) \div 2] \div 256 ELSE val[i \div 2] % 256]

\* solana_instruction_builder.cc:24-43: sizeof(T) bytes, little endian.
UintToLEBytes(val) ==
  [i \in 1..(2 * Len(val)) |->
     IF i % 2 = 1 THEN val[(i + 1) \div 2] % 256 ELSE val[i \div 2] \div 256]

\* solana_instruction_builder.cc:190-192, 274, 287
compression_program == AddressOf(201)
log_wrapper == AddressOf(202)
kSolanaSystemProgramId == AddressOf(203)
kSolanaBubbleGumProgramId == AddressOf(204)
\* solana_instruction_builder.cc:205-206
transfer_instruction_discriminator == <<163, 52, 200, 231, 140, 3, 69, 186>>

SolanaAccountMeta(pubkey, is_signer, is_writable) ==
  [pubkey |-> pubkey, is_signer |-> is_signer, is_writable |-> is_writable]

\* std::nullopt of std::optional<SolanaInstruction>. undefined marks a call
\* that left defined behaviour and does not return.
NoInstruction ==
  [present |-> FALSE, undefined |-> FALSE, program_id |-> NoAddress,
   accounts |-> <<>>, data |-> <<>>]

\* solana_instruction_builder.cc:280-285: the first
\* proof.proof.size() - proof.canopy_depth nodes of the proof path.
ProofSlice(proof) == SubSeq(proof.proof, 1, Len(proof.proof) - proof.canopy_depth)

\* solana_instruction_builder.cc:181-289, bubblegum_program::Transfer. The
\* canopy_depth argument is not read; the slice is cut by proof.canopy_depth.
\* With proof.canopy_depth above the length of the proof path the unsigned
\* difference at 280 wraps and the loop at 282 reads past the path.
BubblegumTransfer(canopy_depth, tree_authority, new_leaf_owner, proof) ==
  LET root_bytes == Base58Decode(proof.root, 32)
      data_hash_bytes == Base58Decode(proof.data_hash, 32)
      creator_hash_bytes == Base58Decode(proof.creator_hash, 32)
  IN IF ~root_bytes.present THEN NoInstruction
     ELSE IF ~data_hash_bytes.present THEN NoInstruction
     ELSE IF ~creator_hash_bytes.present THEN NoInstruction
     ELSE IF proof.canopy_depth > Len(proof.proof)
     THEN [NoInstruction EXCEPT !.undefined = TRUE]
     ELSE [present |-> TRUE, undefined |-> FALSE,
           program_id |-> kSolanaBubbleGumProgramId,
           accounts |->
             << SolanaAccountMeta(tree_authority, FALSE, FALSE),
                SolanaAccountMeta(proof.owner, FALSE, FALSE),
                SolanaAccountMeta(proof.owner, FALSE, FALSE),
                SolanaAccountMeta(new_leaf_owner, FALSE, FALSE),
                SolanaAccountMeta(proof.merkle_tree, FALSE, TRUE),
                SolanaAccountMeta(log_wrapper, FALSE, FALSE),
                SolanaAccountMeta(compression_program, FALSE, FALSE),
                SolanaAccountMeta(kSolanaSystemProgramId, FALSE, FALSE) >>
             \o [i \in DOMAIN ProofSlice(proof) |->
                   SolanaAccountMeta(ProofSlice(proof)[i], FALSE, FALSE)],
           data |-> transfer_instruction_discriminator
                    \o root_bytes.bytes \o data_hash_bytes.bytes
                    \o creator_hash_bytes.bytes
                    \o UintToLEBytes(proof.leaf_index)
                    \o UintToLEBytes(StaticCastUint32(proof.leaf_index))]

\* SolanaMessage::CreateLegacyMessage, absent when the message cannot be
\* made of the instructions (created tells which).
CreateLegacyMessage(recent_blockhash, last_valid_block_height, fee_payer, instructions, created) ==
  [present |-> created, recent_blockhash |-> recent_blockhash,
   last_valid_block_height |-> last_valid_block_height,
   fee_payer |-> fee_payer, instructions |-> instructions]

\* Variant of CompressedNftTransferTxData: the type of the transaction is
\* left unset.
CompressedNftTransferTxData_Untyped(msg, to_wallet_address) ==
  [present |-> TRUE, recent_blockhash |-> msg.recent_blockhash,
   last_valid_block_height |-> msg.last_valid_block_height,
   fee_payer |-> msg.fee_payer, to_wallet_address |-> to_wallet_address,
   tx_type |-> "", instructions |-> msg.instructions]

\* solana_tx_manager.cc:766-770: SolanaTransaction(msg) with the recipient
\* and the type set, as SolanaTxData.
CompressedNftTransferTxData(msg, to_wallet_address) ==
  [present |-> TRUE, recent_blockhash |-> msg.recent_blockhash,
   last_valid_block_height |-> msg.last_valid_block_height,
   fee_payer |-> msg.fee_payer, to_wallet_address |-> to_wallet_address,
   tx_type |-> "SolanaCompressedNftTransfer",
   instructions |-> msg.instructions]

\* The MakeBubbleGumProgramTransferTxDataCallback run with
\* (tx_data, error, error_message).
TxDataCallback(tx_data, error, error_message) ==
  [NoCallback EXCEPT !.name = "MakeBubbleGumProgramTransferTxData",
                     !.tx_data = tx_data, !.error = error,
                     !.error_message = error_message]

\* The proof of a compressed NFT with hashes of the given lengths, a proof
\* path of the given number of nodes, and the given leaf index and canopy
\* depth.
ProofWith(root_len, data_hash_len, creator_hash_len, proof_len, leaf_index, canopy_depth) ==
  [present |-> TRUE,
   root |-> Base58Encode([i \in 1..root_len |-> 11]),
   data_hash |-> Base58Encode([i \in 1..data_hash_len |-> 12]),
   creator_hash |-> Base58Encode([i \in 1..creator_hash_len |-> 13]),
   owner |-> AddressOf(21),
   proof |-> [i \in 1..proof_len |-> AddressOf(30 + i)],
   merkle_tree |-> AddressOf(22),
   leaf_index |-> leaf_index,
   canopy_depth |-> canopy_depth]

\* The proof of a compressed NFT with hashes of the given lengths, a proof
\* path of two nodes and the given canopy depth.
CompressedNftProof(root_len, data_hash_len, creator_hash_len, canopy_depth) ==
  ProofWith(root_len, data_hash_len, creator_hash_len, 2, Uint64(261), canopy_depth)

\* What SimpleHash may answer: no proof, proofs that can be built into an
\* instruction, proofs with a hash of the wrong length, and a proof whose
\* canopy depth is above the length of its path.
CompressedNftProofs ==
  { NoProof,
    CompressedNftProof(32, 32, 32, 0), CompressedNftProof(32, 32, 32, 1),
    CompressedNftProof(31, 32, 32, 0), CompressedNftProof(32, 33, 32, 0),
    CompressedNftProof(32, 32, 0, 0), CompressedNftProof(32, 32, 32, 3) }

\* std::nullopt of std::optional<SolanaAccountInfo>.
NoAccountInfo == [present |-> FALSE, base64 |-> FALSE, data |-> <<>>]

\* An account whose data is the base64 text of the bytes (base64), or text
\* that is not base64.
SolanaAccountInfo(base64, data) ==
  [present |-> TRUE, base64 |-> base64, data |-> data]

\* base::Base64Decode of the account data.
Base64Decode(account_info) ==
  IF account_info.base64
  THEN [present |-> TRUE, bytes |-> account_info.data]
  ELSE [present |-> FALSE, bytes |-> <<>>]

\* The accounts GetSolanaAccountInfo may answer with: text that is not
\* base64, an account of another type, a truncated tree, and trees without
\* and with a canopy.
MerkleTreeAccounts ==
  { SolanaAccountInfo(FALSE, <<>>),
    SolanaAccountInfo(TRUE, MerkleBuffer(0, 0, 0, 0, MerkleLayout(0, 0))),
    SolanaAccountInfo(TRUE, MerkleBuffer(1, 0, 0, 0, 9)),
    SolanaAccountInfo(TRUE, MerkleBuffer(1, 0, 0, 0, MerkleLayout(0, 0))),
    SolanaAccountInfo(TRUE, MerkleBuffer(1, 0, 1, 1, MerkleLayout(1, 1) + 64)) }

TokenAddresses == {"nft"}
SenderAddresses == {AddressOf(21)}
RecipientAddresses == {AddressOf(21), AddressOf(23)}

\* solana_tx_manager.cc:676-683
FetchSolCompressedNftProofDataRequest(token_address, from_wallet_address, to_wallet_address) ==
  [NoReq EXCEPT !.rpc = "FetchSolCompressedNftProofData",
                !.handler = "OnFetchCompressedNftProof",
                !.token_address = token_address,
                !.from_wallet_address = from_wallet_address,
                !.to_wallet_address = to_wallet_address,
                !.callback = "MakeBubbleGumProgramTransferTxData"]

\* solana_tx_manager.cc:670-684
MakeBubbleGumProgramTransferTxData ==
  /\ Callable
  /\ CanIssue(1)
  /\ \E chain_id \in Chains, token_address \in TokenAddresses,
        from_wallet_address \in SenderAddresses,
        to_wallet_address \in RecipientAddresses :
       Effect(NoReq, txs,
         <<FetchSolCompressedNftProofDataRequest(token_address,
             from_wallet_address, to_wallet_address)>>,
         [NoLast EXCEPT !.op = "MakeBubbleGumProgramTransferTxData",
                        !.chain_id = chain_id])
  /\ UNCHANGED <<nextId, destroyed>>

\* mojom::kSolanaMainnet
kSolanaMainnet == "mainnet"

\* solana_tx_manager.cc:702-709
GetSolanaAccountInfoRequest(req, proof) ==
  [NoReq EXCEPT !.rpc = "GetSolanaAccountInfo",
                !.handler = "OnGetMerkleTreeAccountInfo",
                !.chain_id = kSolanaMainnet,
                !.pubkey = proof.merkle_tree,
                !.to_wallet_address = req.to_wallet_address,
                !.proof = proof,
                !.callback = "MakeBubbleGumProgramTransferTxData"]

\* solana_tx_manager.cc:686-710
OnFetchCompressedNftProof ==
  /\ Ready
  /\ \E req \in Requests :
       /\ req.handler = "OnFetchCompressedNftProof"
       /\ \E proof \in CompressedNftProofs :
            LET rec == [NoLast EXCEPT !.op = "OnFetchCompressedNftProof",
                                      !.answer = <<proof>>]
            IN IF ~proof.present
               THEN Effect(req, txs, <<>>,
                      [rec EXCEPT !.cb = TxDataCallback(NoTxData, kInternalError,
                                                        IDS_WALLET_INTERNAL_ERROR)])
               ELSE Effect(req, txs, <<GetSolanaAccountInfoRequest(req, proof)>>, rec)
  /\ UNCHANGED <<nextId, destroyed>>

\* solana_tx_manager.cc:719-722
AccountErrorCallback(result) ==
  TxDataCallback(NoTxData, result.error, result.error_message)

\* solana_tx_manager.cc:724-773, from the account data on.
BuildCompressedNftTransfer(req, rec, account_info, created) ==
  LET account_data_bytes == Base64Decode(account_info)
      result == DecodeMerkleTreeAuthorityAndDepth(account_data_bytes.bytes)
      instruction ==
        BubblegumTransfer(result.canopy_depth, Base58Encode(result.authority),
                          req.to_wallet_address, req.proof)
      msg == CreateLegacyMessage("", 0, req.proof.owner, <<instruction>>, created)
      failed == TxDataCallback(NoTxData, kInternalError, IDS_WALLET_INTERNAL_ERROR)
  IN IF ~account_data_bytes.present
     THEN Effect(req, txs, <<>>, [rec EXCEPT !.cb = failed]) /\ UNCHANGED destroyed
     ELSE IF ~result.present
     THEN Effect(req, txs, <<>>, [rec EXCEPT !.cb = failed]) /\ UNCHANGED destroyed
     ELSE IF instruction.undefined
     THEN Effect(req, txs, <<>>, [rec EXCEPT !.aborted = TRUE]) /\ destroyed' = TRUE
     ELSE IF ~instruction.present
     THEN Effect(req, txs, <<>>, [rec EXCEPT !.cb = failed]) /\ UNCHANGED destroyed
     ELSE IF ~msg.present
     THEN Effect(req, txs, <<>>, [rec EXCEPT !.cb = failed]) /\ UNCHANGED destroyed
     ELSE Effect(req, txs, <<>>,
            [rec EXCEPT !.cb = TxDataCallback(
                           CompressedNftTransferTxData(msg, req.to_wallet_address),
                           kSuccess, "")])
          /\ UNCHANGED destroyed

\* solana_tx_manager.cc:712-773. account_info->data at 724 is read without
\* a look at whether the optional holds an account: with no account and
\* kSuccess the read is undefined, and the build either stops the process
\* there or goes on with whatever bytes it finds.
OnGetMerkleTreeAccountInfo ==
  /\ Ready
  /\ \E req \in Requests :
       /\ req.handler = "OnGetMerkleTreeAccountInfo"
       /\ \E result \in RpcResults, created \in BOOLEAN :
          \E account_info \in
               (IF result.error = kSuccess
                THEN MerkleTreeAccounts \cup {NoAccountInfo}
                ELSE {NoAccountInfo}) :
            LET rec == [NoLast EXCEPT !.op = "OnGetMerkleTreeAccountInfo",
                                      !.result = result,
                                      !.answer = <<account_info, created>>]
            IN IF result.error # kSuccess
               THEN /\ Effect(req, txs, <<>>,
                         [rec EXCEPT !.cb = AccountErrorCallback(result)])
                    /\ UNCHANGED destroyed
               ELSE IF ~account_info.present
               THEN \/ /\ Effect(req, txs, <<>>, [rec EXCEPT !.aborted = TRUE])
                       /\ destroyed' = TRUE
                    \/ \E found \in MerkleTreeAccounts :
                         BuildCompressedNftTransfer(req, rec, found, created)
               ELSE BuildCompressedNftTransfer(req, rec, account_info, created)
  /\ UNCHANGED nextId

\* ------------------------------------------------- instruction builder
\* mojom::SolanaTokenInstruction::kTransfer
kSolanaTokenInstructionTransfer == 3
kSolanaTokenProgramId == AddressOf(205)

\* Variant of AuthorityMeta: the authority signs whatever the co-signers.
AuthorityMeta_AlwaysSigner(authority_pubkey, signer_pubkeys) ==
  SolanaAccountMeta(authority_pubkey, TRUE, FALSE)

\* solana_instruction_builder.cc:124-125
AuthorityMeta(authority_pubkey, signer_pubkeys) ==
  SolanaAccountMeta(authority_pubkey, signer_pubkeys = <<>>, FALSE)

\* solana_instruction_builder.cc:100-133, spl_token_program::Transfer
SplTokenTransfer(token_program_id, source_pubkey, destination_pubkey, authority_pubkey, signer_pubkeys, amount) ==
  IF \/ token_program_id = NoAddress
     \/ source_pubkey = NoAddress
     \/ destination_pubkey = NoAddress
     \/ authority_pubkey = NoAddress
  THEN NoInstruction
  ELSE [present |-> TRUE, undefined |-> FALSE,
        program_id |-> token_program_id,
        accounts |->
          << SolanaAccountMeta(source_pubkey, FALSE, TRUE),
             SolanaAccountMeta(destination_pubkey, FALSE, TRUE),
             AuthorityMeta(authority_pubkey, signer_pubkeys) >>
          \o [i \in DOMAIN signer_pubkeys |->
                SolanaAccountMeta(signer_pubkeys[i], TRUE, FALSE)],
        data |-> <<kSolanaTokenInstructionTransfer>> \o UintToLEBytes(amount)]

\* Amounts and leaf indexes: 0, numbers of one and of two words, and numbers
\* of 2^32 and more.
Uint64Values ==
  { Uint64(0), Uint64(261), Uint64(70000), <<5, 0, 1, 0>>,
    <<65535, 65535, 65535, 65535>> }

\* The sequences of at most n of the keys.
SeqsUpTo(keys, n) == UNION { [1..k -> keys] : k \in 0..n }

SignerPubkeys == {AddressOf(51), AddressOf(52)}

SplTokenTransferInputs ==
  { [fn |-> "spl_token_program::Transfer",
     token_program_id |-> token_program_id, source_pubkey |-> source_pubkey,
     destination_pubkey |-> destination_pubkey,
     authority_pubkey |-> authority_pubkey,
     signer_pubkeys |-> signer_pubkeys, amount |-> amount] :
      token_program_id \in {NoAddress, kSolanaTokenProgramId},
      source_pubkey \in {NoAddress, AddressOf(61)},
      destination_pubkey \in {NoAddress, AddressOf(62)},
      authority_pubkey \in {NoAddress, AddressOf(63)},
      signer_pubkeys \in SeqsUpTo(SignerPubkeys, MaxSigners),
      amount \in {Uint64(0), Uint64(70000), <<5, 0, 1, 0>>} }

\* Proofs for the builder: hashes of the right and of a wrong length, paths
\* of every length up to MaxProofLen, canopy depths up to one above it.
BuilderProofs ==
  { ProofWith(lens[1], lens[2], lens[3], proof_len, leaf_index, canopy_depth) :
      lens \in {<<32, 32, 32>>, <<31, 32, 32>>, <<32, 33, 32>>, <<32, 32, 0>>},
      proof_len \in 0..MaxProofLen,
      leaf_index \in Uint64Values,
      canopy_depth \in 0..(MaxProofLen + 1) }

BubblegumTransferInputs ==
  { [fn |-> "bubblegum_program::Transfer", canopy_depth |-> canopy_depth,
     tree_authority |-> AddressOf(41), new_leaf_owner |-> AddressOf(23),
     proof |-> proof] :
      canopy_depth \in 0..(MaxProofLen + 1), proof \in BuilderProofs }

\* spl_token_program::Transfer applied to the arguments in input.
SplTokenTransferCall ==
  /\ input.fn = "spl_token_program::Transfer"
  /\ ~output.done
  /\ output' = [done |-> TRUE,
                result |-> SplTokenTransfer(input.token_program_id,
                             input.source_pubkey, input.destination_pubkey,
                             input.authority_pubkey, input.signer_pubkeys,
                             input.amount)]
  /\ UNCHANGED <<txs, nextId, inflight, calls, destroyed, last, input>>

\* bubblegum_program::Transfer applied to the arguments in input. A call
\* that leaves defined behaviour (the loop bound at 280 wrapped) reads past
\* the proof path until the process ends: it has no result, and output
\* records that.
BubblegumTransferCall ==
  /\ input.fn = "bubblegum_program::Transfer"
  /\ ~output.done
  /\ output' = [done |-> TRUE,
                result |-> BubblegumTransfer(input.canopy_depth,
                             input.tree_authority, input.new_leaf_owner,
                             input.proof)]
  /\ UNCHANGED <<txs, nextId, inflight, calls, destroyed, last, input>>

InitBuilder ==
  /\ txs = <<>>
  /\ nextId = 1
  /\ inflight = EmptyBag
  /\ calls = 0
  /\ destroyed = FALSE
  /\ last = NoLast
  /\ input \in SplTokenTransferInputs \cup BubblegumTransferInputs
  /\ output = NoOutput

NextBuilder ==
  \/ SplTokenTransferCall
  \/ BubblegumTransferCall

SpecBuilder == InitBuilder /\ [][NextBuilder]_vars

\* ---------------------------------------- MakeTokenProgramTransferTxData
\* mojom::kSolanaAssociatedTokenProgramId
kSolanaAssociatedTokenProgramId == AddressOf(206)

IDS_WALLET_OFAC_RESTRICTION == "IDS_WALLET_OFAC_RESTRICTION"
kInvalidParams == "kInvalidParams"

\* solana_instruction_builder.cc:152-175,
\* spl_associated_token_account_program::CreateAssociatedTokenAccount
CreateAssociatedTokenAccount(funding_address, wallet_address, associated_token_account_address, spl_token_mint_address) ==
  IF \/ funding_address = NoAddress
     \/ wallet_address = NoAddress
     \/ associated_token_account_address = NoAddress
     \/ spl_token_mint_address = NoAddress
  THEN NoInstruction
  ELSE [present |-> TRUE, undefined |-> FALSE,
        program_id |-> kSolanaAssociatedTokenProgramId,
        accounts |->
          << SolanaAccountMeta(funding_address, TRUE, TRUE),
             SolanaAccountMeta(associated_token_account_address, FALSE, TRUE),
             SolanaAccountMeta(wallet_address, FALSE, FALSE),
             SolanaAccountMeta(spl_token_mint_address, FALSE, FALSE),
             SolanaAccountMeta(kSolanaSystemProgramId, FALSE, FALSE),
             SolanaAccountMeta(kSolanaTokenProgramId, FALSE, FALSE) >>,
        data |-> <<>>]

\* BlockchainRegistry::IsOfacAddress: the addresses on the sanctions list.
OfacAddresses == {AddressOf(66)}
IsOfacAddress(address) == address \in OfacAddresses

\* SolanaKeyring::GetAssociatedTokenAccount: what the derivation may yield
\* for a mint and a wallet, NoAddress standing for std::nullopt.
GetAssociatedTokenAccount(spl_token_mint_address, wallet_address) ==
  { NoAddress,
    IF wallet_address = AddressOf(21) THEN AddressOf(121) ELSE AddressOf(123) }

\* std::optional<SolanaAccountInfo>: no account, and an account with its owner.
NoTokenAccountInfo == [present |-> FALSE, owner |-> NoAddress]
TokenAccountInfo(owner) == [present |-> TRUE, owner |-> owner]

\* The accounts GetSolanaAccountInfo may answer with for the recipient's
\* associated token account: none, one of the token program, one of another.
TokenAccountInfos ==
  { NoTokenAccountInfo, TokenAccountInfo(kSolanaTokenProgramId),
    TokenAccountInfo(kSolanaSystemProgramId) }

\* The MakeTokenProgramTransferTxDataCallback run with
\* (tx_data, error, error_message).
TokenTxDataCallback(tx_data, error, error_message) ==
  [NoCallback EXCEPT !.name = "MakeTokenProgramTransferTxData",
                     !.tx_data = tx_data, !.error = error,
                     !.error_message = error_message]

\* solana_tx_manager.cc:622-628
GetSolanaTokenAccountInfoRequest(chain_id, spl_token_mint_address, from_wallet_address, to_wallet_address, from_associated_token_account, to_associated_token_account, amount) ==
  [NoReq EXCEPT !.rpc = "GetSolanaAccountInfo",
                !.handler = "OnGetAccountInfo",
                !.chain_id = chain_id,
                !.pubkey = to_associated_token_account,
                !.spl_token_mint_address = spl_token_mint_address,
                !.from_wallet_address = from_wallet_address,
                !.to_wallet_address = to_wallet_address,
                !.from_associated_token_account = from_associated_token_account,
                !.to_associated_token_account = to_associated_token_account,
                !.amount = amount,
                !.callback = "MakeTokenProgramTransferTxData"]

MintAddresses == {AddressOf(71)}
TokenRecipientAddresses == {AddressOf(23), AddressOf(66)}
TokenAmounts == {Uint64(70000), <<5, 0, 1, 0>>}

\* solana_tx_manager.cc:594-629
MakeTokenProgramTransferTxData ==
  /\ Callable
  /\ \E chain_id \in Chains, spl_token_mint_address \in MintAddresses,
        from_wallet_address \in SenderAddresses,
        to_wallet_address \in TokenRecipientAddresses, amount \in TokenAmounts :
     \E from_associated_token_account \in
          GetAssociatedTokenAccount(spl_token_mint_address, from_wallet_address),
        to_associated_token_account \in
          GetAssociatedTokenAccount(spl_token_mint_address, to_wallet_address) :
       LET rec == [NoLast EXCEPT !.op = "MakeTokenProgramTransferTxData",
                                 !.chain_id = chain_id,
                                 !.answer = <<to_wallet_address,
                                              from_associated_token_account,
                                              to_associated_token_account>>]
       IN IF IsOfacAddress(to_wallet_address)
          THEN Effect(NoReq, txs, <<>>,
                 [rec EXCEPT !.cb = TokenTxDataCallback(NoTxData, kInvalidParams,
                                                        IDS_WALLET_OFAC_RESTRICTION)])
          ELSE IF \/ from_associated_token_account = NoAddress
                  \/ to_associated_token_account = NoAddress
          THEN Effect(NoReq, txs, <<>>,
                 [rec EXCEPT !.cb = TokenTxDataCallback(NoTxData, kInternalError,
                                                        IDS_WALLET_INTERNAL_ERROR)])
          ELSE /\ CanIssue(1)
               /\ Effect(NoReq, txs,
                    <<GetSolanaTokenAccountInfoRequest(chain_id,
                        spl_token_mint_address, from_wallet_address,
                        to_wallet_address, from_associated_token_account,
                        to_associated_token_account, amount)>>,
                    rec)
  /\ UNCHANGED <<nextId, destroyed>>

\* Variant of NeedsAssociatedTokenAccount: the owner of an account that
\* exists is not looked at.
NeedsAssociatedTokenAccount_AbsentOnly(account_info) == ~account_info.present

\* solana_tx_manager.cc:941
NeedsAssociatedTokenAccount(account_info) ==
  ~account_info.present \/ account_info.owner # kSolanaTokenProgramId

\* solana_tx_manager.cc:985-989
TokenTransferTxType(create_associated_token_account) ==
  IF create_associated_token_account
  THEN "SolanaSPLTokenTransferWithAssociatedTokenAccountCreation"
  ELSE "SolanaSPLTokenTransfer"

\* solana_tx_manager.cc:981-991: SolanaTransaction(msg) with the recipient,
\* the mint, the amount and the type set, as SolanaTxData.
TokenTransferTxData(msg, req, create_associated_token_account) ==
  [present |-> TRUE, recent_blockhash |-> msg.recent_blockhash,
   last_valid_block_height |-> msg.last_valid_block_height,
   fee_payer |-> msg.fee_payer, to_wallet_address |-> req.to_wallet_address,
   tx_type |-> TokenTransferTxType(create_associated_token_account),
   instructions |-> msg.instructions,
   spl_token_mint_address |-> req.spl_token_mint_address,
   amount |-> req.amount]

\* solana_tx_manager.cc:939-996, after the error of the lookup is ruled out.
BuildTokenTransfer(req, rec, account_info, created) ==
  LET create_associated_token_account == NeedsAssociatedTokenAccount(account_info)
      create_associated_token_instruction ==
        CreateAssociatedTokenAccount(req.from_wallet_address,
          req.to_wallet_address, req.to_associated_token_account,
          req.spl_token_mint_address)
      transfer_instruction ==
        SplTokenTransfer(kSolanaTokenProgramId, req.from_associated_token_account,
          req.to_associated_token_account, req.from_wallet_address, <<>>,
          req.amount)
      instructions ==
        (IF create_associated_token_account
         THEN <<create_associated_token_instruction>> ELSE <<>>)
        \o <<transfer_instruction>>
      msg == CreateLegacyMessage("", 0, req.from_wallet_address, instructions, created)
      failed == TokenTxDataCallback(NoTxData, kInternalError, IDS_WALLET_INTERNAL_ERROR)
  IN IF create_associated_token_account /\ ~create_associated_token_instruction.present
     THEN Effect(req, txs, <<>>, [rec EXCEPT !.cb = failed])
     ELSE IF ~transfer_instruction.present
     THEN Effect(req, txs, <<>>, [rec EXCEPT !.cb = failed])
     ELSE IF ~msg.present
     THEN Effect(req, txs, <<>>, [rec EXCEPT !.cb = failed])
     ELSE Effect(req, txs, <<>>,
            [rec EXCEPT !.cb = TokenTxDataCallback(
                           TokenTransferTxData(msg, req, create_associated_token_account),
                           kSuccess, "")])

\* solana_tx_manager.cc:923-996
OnGetAccountInfo ==
  /\ Ready
  /\ \E req \in Requests :
       /\ req.handler = "OnGetAccountInfo"
       /\ \E result \in RpcResults, created \in BOOLEAN :
          \E account_info \in
               (IF result.error = kSuccess
                THEN TokenAccountInfos ELSE {NoTokenAccountInfo}) :
            LET rec == [NoLast EXCEPT !.op = "OnGetAccountInfo",
                                      !.result = result,
                                      !.answer = <<account_info, created>>]
            IN IF result.error # kSuccess
               THEN Effect(req, txs, <<>>,
                      [rec EXCEPT !.cb = TokenTxDataCallback(NoTxData, result.error,
                                                             result.error_message)])
               ELSE BuildTokenTransfer(req, rec, account_info, created)
  /\ UNCHANGED <<nextId, destroyed>>

\* ------------------------------------------------- NFT indexer client
\* SimpleHashClient (simple_hash_client.h:43-140). Its implementation file is
\* not part of the sources at hand: the operators below follow the
\* declarations of the header, the contract of the specification (4.3) and
\* the expectations of simple_hash_client_unittest.cc.
kMainnetChainId == "0x1"
kOptimismMainnetChainId == "0xa"
kUnsupportedChainId == "chain ID not supported by SimpleHash"

\* The coin types the indexer serves.
SupportedCoins == {"ETH", "SOL"}

\* The indexer's slug of a chain id, "" when it has none.
ChainIdToSimpleHashChainId(chain_id) ==
  IF chain_id = kMainnetChainId THEN "ethereum"
  ELSE IF chain_id = kOptimismMainnetChainId THEN "optimism"
  ELSE ""

\* GURL(): the empty, invalid URL.
NoUrl == [valid |-> FALSE, chains |-> <<>>, wallet_addresses |-> "", cursor |-> ""]

\* SimpleHashClient::GetSimpleHashNftsByWalletUrl: the slugs of the
\* supported chains in input order, the wallet address and the cursor; the
\* empty URL for an empty address or when no chain has a slug.
GetSimpleHashNftsByWalletUrl(account_address, chain_ids, cursor) ==
  LET slugs == SelectSeq([i \in DOMAIN chain_ids |->
                            ChainIdToSimpleHashChainId(chain_ids[i])],
                         LAMBDA slug : slug # "")
  IN IF account_address = "" \/ slugs = <<>> THEN NoUrl
     ELSE [valid |-> TRUE, chains |-> slugs,
           wallet_addresses |-> account_address, cursor |-> cursor]

\* An element of the "nfts" array: valid when it has every required field,
\* with the spam score of its collection.
IsSpam(nft) == nft.spam_score > 0

\* Variant of KeepsRecord: only_spam is not looked at.
KeepsRecord_SkipOnly(nft, skip_spam, only_spam) ==
  /\ nft.valid
  /\ ~(skip_spam /\ IsSpam(nft))

\* Whether ParseNFTsFromSimpleHash keeps an element: one that misses a
\* required field is dropped, a spam one is dropped under skip_spam and a
\* non-spam one under only_spam.
KeepsRecord(nft, skip_spam, only_spam) ==
  /\ nft.valid
  /\ ~(skip_spam /\ IsSpam(nft))
  /\ ~(only_spam /\ ~IsSpam(nft))

\* std::nullopt of the pair ParseNFTsFromSimpleHash returns.
NoParse == [present |-> FALSE, cursor |-> "", nfts |-> <<>>]

\* SimpleHashClient::ParseNFTsFromSimpleHash: absent when both flags are set
\* or the body is not an object with an "nfts" array; otherwise the cursor
\* of the page ("" when "next_cursor" is null or missing) and the elements
\* kept, in the order of the array.
ParseNFTsFromSimpleHash(json_value, coin, skip_spam, only_spam) ==
  IF skip_spam /\ only_spam THEN NoParse
  ELSE IF ~json_value.well_formed THEN NoParse
  ELSE [present |-> TRUE, cursor |-> json_value.next_cursor,
        nfts |-> SelectSeq(json_value.nfts,
                   LAMBDA nft : KeepsRecord(nft, skip_spam, only_spam))]

\* The responses of the indexer: a timeout, a server error whose body reads
\* like a page, a body that is no page, and the pages of up to n of the
\* given elements with or without a cursor.
RequestTimeout == [status |-> 408, well_formed |-> FALSE, nfts |-> <<>>, next_cursor |-> ""]
NotAPage == [status |-> 200, well_formed |-> FALSE, nfts |-> <<>>, next_cursor |-> ""]
Cursors == {"", "abc123", "def456"}
ServerError ==
  [status |-> 500, well_formed |-> TRUE, nfts |-> <<>>, next_cursor |-> "abc123"]

Pages(elements, n) ==
  { [status |-> 200, well_formed |-> TRUE, nfts |-> nfts, next_cursor |-> next_cursor] :
      nfts \in SeqsUpTo(elements, n), next_cursor \in Cursors }

Is2XXResponseCode(api_request_result) ==
  api_request_result.status >= 200 /\ api_request_result.status <= 299

NonSpam1 == [token_id |-> 1, spam_score |-> 0, valid |-> TRUE]
NonSpam2 == [token_id |-> 2, spam_score |-> 0, valid |-> TRUE]
Spam3 == [token_id |-> 3, spam_score |-> 100, valid |-> TRUE]
NoCollection4 == [token_id |-> 4, spam_score |-> 0, valid |-> FALSE]
ValidRecords == {NonSpam1, NonSpam2, Spam3}

ParseInputs ==
  { [fn |-> "ParseNFTsFromSimpleHash", json_value |-> json_value, coin |-> coin,
     skip_spam |-> skip_spam, only_spam |-> only_spam] :
      json_value \in Pages(ValidRecords \cup {NoCollection4}, MaxPageLen) \cup {NotAPage},
      coin \in {"ETH"}, skip_spam \in BOOLEAN, only_spam \in BOOLEAN }

\* ParseNFTsFromSimpleHash applied to the arguments in input.
ParseNFTsFromSimpleHashCall ==
  /\ input.fn = "ParseNFTsFromSimpleHash"
  /\ ~output.done
  /\ output' = [done |-> TRUE,
                result |-> ParseNFTsFromSimpleHash(input.json_value, input.coin,
                             input.skip_spam, input.only_spam)]
  /\ UNCHANGED <<txs, nextId, inflight, calls, destroyed, last, input>>

InitParse ==
  /\ txs = <<>>
  /\ nextId = 1
  /\ inflight = EmptyBag
  /\ calls = 0
  /\ destroyed = FALSE
  /\ last = NoLast
  /\ input \in ParseInputs
  /\ output = NoOutput

NextParse == ParseNFTsFromSimpleHashCall

SpecParse == InitParse /\ [][NextParse]_vars

\* The request FetchNFTsFromSimpleHash issues for a fetch, with
\* OnFetchNFTsFromSimpleHash bound as its continuation.
FetchRequest(fetch) ==
  [NoReq EXCEPT !.rpc = "SimpleHashNftsByWallet",
                !.handler = "OnFetchNFTsFromSimpleHash", !.fetch = fetch]

\* Variant of ShortCircuits: only the coin type is checked.
ShortCircuits_CoinOnly(fetch) == fetch.coin \notin SupportedCoins

\* FetchNFTsFromSimpleHash completes without a request: the coin type is
\* not served or the URL is empty.
ShortCircuits(fetch) ==
  \/ fetch.coin \notin SupportedCoins
  \/ ~GetSimpleHashNftsByWalletUrl(fetch.account_address, fetch.chain_ids,
                                   fetch.cursor).valid

\* The caller's callbacks.
FetchNFTsCallback(fetch, nfts, cursor) ==
  [NoCallback EXCEPT !.name = "FetchNFTsFromSimpleHash", !.success = TRUE,
                     !.id = fetch.call, !.nfts = nfts, !.cursor = cursor]

FetchAllNFTsCallback(fetch, nfts) ==
  [NoCallback EXCEPT !.name = "FetchAllNFTsFromSimpleHash", !.success = TRUE,
                     !.id = fetch.call, !.nfts = nfts]

\* What one task of the client does: the requests it issues and the
\* caller's callback it runs.
NoOutcome == [sent |-> <<>>, cb |-> NoCallback]

\* Variant of Accumulate: the page replaces what was collected before.
Accumulate_LastPage(nfts_so_far, nfts) == nfts

\* OnFetchAllNFTsFromSimpleHash moves the records of the page to the end of
\* nfts_so_far.
Accumulate(nfts_so_far, nfts) == nfts_so_far \o nfts

\* SimpleHashClient::OnFetchAllNFTsFromSimpleHash (simple_hash_client.h:
\* 108-115): the page is added to nfts_so_far; with a cursor the next page
\* is fetched with it, spam skipped, and the same continuation; without one
\* the caller's callback gets nfts_so_far. A next fetch that completed
\* without a request would come back here with an empty page and no cursor.
OnFetchAllNFTsFromSimpleHash(fetch, nfts, next_cursor) ==
  LET so_far == Accumulate(fetch.nfts_so_far, nfts)
      next == [fetch EXCEPT !.cursor = next_cursor, !.nfts_so_far = so_far,
                            !.skip_spam = TRUE, !.only_spam = FALSE]
  IN IF next_cursor # "" /\ ~ShortCircuits(next)
     THEN [NoOutcome EXCEPT !.sent = <<FetchRequest(next)>>]
     ELSE [NoOutcome EXCEPT !.cb = FetchAllNFTsCallback(fetch, so_far)]

\* The callback FetchNFTsFromSimpleHash was given is run with a page.
RunFetchCallback(fetch, nfts, cursor) ==
  IF fetch.callback = "OnFetchAllNFTsFromSimpleHash"
  THEN OnFetchAllNFTsFromSimpleHash(fetch, nfts, cursor)
  ELSE [NoOutcome EXCEPT !.cb = FetchNFTsCallback(fetch, nfts, cursor)]

\* SimpleHashClient::FetchNFTsFromSimpleHash: an empty page and no cursor
\* without a request when the fetch short-circuits, the request otherwise.
FetchNFTsFromSimpleHash(fetch) ==
  IF ShortCircuits(fetch)
  THEN RunFetchCallback(fetch, <<>>, "")
  ELSE [NoOutcome EXCEPT !.sent = <<FetchRequest(fetch)>>]

\* SimpleHashClient::OnFetchNFTsFromSimpleHash: the page handed to the
\* callback. A response that is not 2xx and a body that does not parse give
\* an empty page and no cursor.
PageOf(fetch, api_request_result) ==
  IF ~Is2XXResponseCode(api_request_result) THEN NoParse
  ELSE ParseNFTsFromSimpleHash(api_request_result, fetch.coin,
                               fetch.skip_spam, fetch.only_spam)

\* The fetches callers start: FetchAllNFTsFromSimpleHash begins without a
\* cursor, skips spam and binds OnFetchAllNFTsFromSimpleHash.
AccountAddresses == {"", "0x0000"}
ChainIdLists == {<<>>, <<kUnsupportedChainId>>, <<kMainnetChainId>>}
CoinTypes == {"ETH", "FIL"}

FetchNFTsArguments(call) ==
  { [NoFetch EXCEPT !.call = call, !.account_address = account_address,
                    !.chain_ids = chain_ids, !.coin = coin, !.cursor = cursor,
                    !.skip_spam = flags[1], !.only_spam = flags[2],
                    !.callback = "FetchNFTsFromSimpleHashCallback"] :
      account_address \in AccountAddresses, chain_ids \in ChainIdLists,
      coin \in CoinTypes, cursor \in {"", "abc123"},
      flags \in BOOLEAN \X BOOLEAN }

FetchAllNFTsArguments(call) ==
  { [NoFetch EXCEPT !.call = call, !.account_address = account_address,
                    !.chain_ids = chain_ids, !.coin = coin,
                    !.skip_spam = TRUE, !.only_spam = FALSE,
                    !.callback = "OnFetchAllNFTsFromSimpleHash"] :
      account_address \in AccountAddresses, chain_ids \in ChainIdLists,
      coin \in CoinTypes }

\* How often the callback of each call has run so far.
NoRuns == [done |-> FALSE, runs |-> <<>>]

\* One task of the client: the fetch it works on, the request answered
\* (NoReq for a call from outside), the requests issued and the callback
\* run.
ClientTask(op, fetch, answered, answer, outcome, seen) ==
  LET sent == [i \in DOMAIN outcome.sent |->
                 [outcome.sent[i] EXCEPT !.fetch.seen = seen]]
      ran == IF outcome.cb = NoCallback THEN 0 ELSE 1
  IN /\ inflight' = (IF answered = NoReq THEN inflight
                     ELSE inflight (-) SetToBag({answered})) (+) BagOfSeq(sent)
     /\ calls' = IF answered = NoReq THEN calls + 1 ELSE calls
     /\ output' = [output EXCEPT !.runs =
                     IF answered = NoReq THEN Append(@, ran)
                     ELSE [@ EXCEPT ![answered.fetch.call] = @ + ran]]
     /\ last' = [NoLast EXCEPT !.op = op, !.req = answered, !.sent = sent,
                               !.cb = outcome.cb, !.fetch = fetch,
                               !.answer = answer]
     /\ UNCHANGED <<txs, nextId, destroyed, input>>

\* A caller fetches one page.
FetchNFTsFromSimpleHashCalled ==
  /\ Callable
  /\ CanIssue(1)
  /\ \E fetch \in FetchNFTsArguments(calls + 1) :
       ClientTask("FetchNFTsFromSimpleHash", fetch, NoReq, <<>>,
                  FetchNFTsFromSimpleHash(fetch), <<>>)

\* SimpleHashClient::FetchAllNFTsFromSimpleHash.
FetchAllNFTsFromSimpleHash ==
  /\ Callable
  /\ CanIssue(1)
  /\ \E fetch \in FetchAllNFTsArguments(calls + 1) :
       ClientTask("FetchAllNFTsFromSimpleHash", fetch, NoReq, <<>>,
                  FetchNFTsFromSimpleHash(fetch), <<>>)

\* The response to the request of call id arrives:
\* OnFetchNFTsFromSimpleHash runs the callback the fetch was given. The
\* indexer returns at most MaxRecords elements over the pages of one fetch.
OnFetchNFTsFromSimpleHashOf(id) ==
  /\ Ready
  /\ \E req \in Requests :
       /\ req.handler = "OnFetchNFTsFromSimpleHash"
       /\ req.fetch.call = id
       /\ \E api_request_result \in
               Pages(ValidRecords, MaxPageLen)
                 \cup {NotAPage, RequestTimeout, ServerError} :
            LET page == PageOf(req.fetch, api_request_result)
                seen == req.fetch.seen \o api_request_result.nfts
            IN /\ Len(seen) <= MaxRecords
               /\ ClientTask("OnFetchNFTsFromSimpleHash", req.fetch, req,
                             <<api_request_result>>,
                             RunFetchCallback(req.fetch, page.nfts, page.cursor),
                             seen)

OnFetchNFTsFromSimpleHash ==
  \E id \in 1..MaxCalls : OnFetchNFTsFromSimpleHashOf(id)

\* ------------------------------------------------------------ environment
\* SolanaTxManager::~SolanaTxManager: the weak pointers bound into the
\* outstanding continuations are invalidated.
Destroy ==
  /\ Callable
  /\ destroyed' = TRUE
  /\ calls' = calls + 1
  /\ last' = [NoLast EXCEPT !.op = "~SolanaTxManager"]
  /\ UNCHANGED <<txs, nextId, inflight, input, output>>

\* Variant of InvalidatedContinuation: the continuation is bound to the
\* manager unconditionally, and its error path runs the caller's callback.
InvalidatedContinuation_Unretained(req) ==
  Effect(req, txs, <<>>,
    [NoLast EXCEPT !.op = "AnswerAfterDestroy",
                   !.cb = Callback(req.callback, FALSE, kInternalError,
                                   IDS_WALLET_INTERNAL_ERROR, req.tx_meta_id)])

\* A continuation bound with weak_ptr_factory_.GetWeakPtr() (188-189,
\* 197-198, 251-252, 338-339, 352-353, 378-379, 678-679, 704-705) whose weak
\* pointer is invalid: the answer is consumed and the method is not run.
InvalidatedContinuation(req) ==
  Effect(req, txs, <<>>, [NoLast EXCEPT !.op = "AnswerAfterDestroy"])

\* An answer arriving after destruction.
AnswerAfterDestroy ==
  /\ destroyed
  /\ last = NoLast
  /\ \E req \in Requests : InvalidatedContinuation(req)
  /\ UNCHANGED <<nextId, destroyed>>

\* Storage-layer pruning of a finished transaction.
RetireTx ==
  /\ last = NoLast
  /\ \E id \in DOMAIN txs :
       /\ txs[id].status = "Confirmed"
       /\ txs' = [i \in DOMAIN txs \ {id} |-> txs[i]]
       /\ last' = [NoLast EXCEPT !.op = "RetireTx", !.arg = id]
  /\ UNCHANGED <<nextId, inflight, calls, destroyed, input, output>>

\* The task recorded in last returns; the sequence is idle again.
TaskReturns ==
  /\ last # NoLast
  /\ last' = NoLast
  /\ UNCHANGED <<txs, nextId, inflight, calls, destroyed, input, output>>

\* ---------------------------------------------------------- specification
Init ==
  /\ txs = <<>>
  /\ nextId = 1
  /\ inflight = EmptyBag
  /\ calls = 0
  /\ destroyed = FALSE
  /\ last = NoLast
  /\ input = NoInput
  /\ output = NoOutput

\* The transaction lifecycle: adding, approving, sending, reconciling and
\* retrying, with the answers of the RPC collaborator.
Next ==
  \/ AddUnapprovedTransaction
  \/ ApproveTransaction
  \/ OnGetLatestBlockhash
  \/ OnGetBlockHeightForBlockhash
  \/ OnSendSolanaTransaction
  \/ OnLatestBlockhashUpdated
  \/ UpdatePendingTransactionsAllChains
  \/ OnGetBlockHeight
  \/ OnGetSignatureStatuses
  \/ RetryTransaction
  \/ ProcessSolanaHardwareSignature
  \/ RetireTx
  \/ TaskReturns

Spec == Init /\ [][Next]_vars

\* The lifecycle together with the hardware-wallet signing path:
\* GetTransactionMessageToSign and the handlers of its fetches.
NextSign ==
  \/ AddUnapprovedTransaction
  \/ ApproveTransaction
  \/ OnGetLatestBlockhash
  \/ OnGetBlockHeightForBlockhash
  \/ OnSendSolanaTransaction
  \/ OnGetBlockHeight
  \/ OnGetSignatureStatuses
  \/ GetTransactionMessageToSign
  \/ OnGetLatestBlockhashHardware
  \/ OnGetBlockHeightForBlockhashHardware
  \/ RetryTransaction
  \/ TaskReturns

SpecSign == Init /\ [][NextSign]_vars

\* Fee estimation beside adding and approving transactions.
NextFee ==
  \/ AddUnapprovedTransaction
  \/ ApproveTransaction
  \/ OnGetLatestBlockhash
  \/ OnGetBlockHeightForBlockhash
  \/ GetEstimatedTxFee
  \/ OnGetLatestBlockhashForGetEstimatedTxFee
  \/ OnGetFeeForMessage
  \/ TaskReturns

SpecFee == Init /\ [][NextFee]_vars

\* The construction of a compressed-NFT transfer beside adding transactions.
NextNft ==
  \/ AddUnapprovedTransaction
  \/ MakeBubbleGumProgramTransferTxData
  \/ OnFetchCompressedNftProof
  \/ OnGetMerkleTreeAccountInfo
  \/ TaskReturns

SpecNft == Init /\ [][NextNft]_vars

\* The construction of an SPL-token transfer, with the answers of the lookup
\* of the recipient's associated token account.
NextToken ==
  \/ MakeTokenProgramTransferTxData
  \/ OnGetAccountInfo
  \/ TaskReturns

SpecToken == Init /\ [][NextToken]_vars

\* The hashes SendSolanaTransaction has answered with for the transactions
\* pending at the start of a reconciliation.
PendingTxHashes(id) == IF id = 1 THEN {"H1"} ELSE {"H2"}

\* The transaction with the given id as the lifecycle leaves it: added and
\* not yet approved, or added, approved and sent with the given hash.
PendingStoreMetas(id) ==
  UNION { { NewUnapprovedMeta(id, chain_id, data) }
          \cup { SentMeta(ApprovedMeta(NewUnapprovedMeta(id, chain_id, data),
                                       bh, lvbh), TRUE, tx_hash) :
                   tx_hash \in PendingTxHashes(id), bh \in LatestBlockhashes,
                   lvbh \in LastValidBlockHeights } :
          chain_id \in Chains,
          data \in {d \in TxDataInputs : d.recent_blockhash = ""} }

\* The stores of up to MaxTx such transactions.
PendingStores ==
  UNION { { store \in [1..n -> UNION {PendingStoreMetas(id) : id \in 1..n}] :
              \A id \in 1..n : store[id].id = id } : n \in 0..MaxTx }

\* Reconciliation starting from a store with transactions on several chains.
InitPending ==
  /\ txs \in PendingStores
  /\ nextId = Len(txs) + 1
  /\ inflight = EmptyBag
  /\ calls = 0
  /\ destroyed = FALSE
  /\ last = NoLast
  /\ input = NoInput
  /\ output = NoOutput

NextPending ==
  \/ UpdatePendingTransactionsAllChains
  \/ OnGetBlockHeight
  \/ OnGetSignatureStatuses
  \/ TaskReturns

SpecPending == InitPending /\ [][NextPending]_vars

\* The destruction of the manager while requests are outstanding: approval,
\* sending, reconciliation and the proof fetch of the indexer, with the
\* answers that arrive before and after.
NextDestroy ==
  \/ AddUnapprovedTransaction
  \/ ApproveTransaction
  \/ OnGetLatestBlockhash
  \/ OnGetBlockHeightForBlockhash
  \/ OnSendSolanaTransaction
  \/ OnGetBlockHeight
  \/ OnGetSignatureStatuses
  \/ MakeBubbleGumProgramTransferTxData
  \/ OnFetchCompressedNftProof
  \/ Destroy
  \/ AnswerAfterDestroy
  \/ TaskReturns

SpecDestroy == Init /\ [][NextDestroy]_vars

\* The NFT indexer client: single-page fetches and paginated fetches, with
\* the responses of the indexer.
InitSimpleHash ==
  /\ txs = <<>>
  /\ nextId = 1
  /\ inflight = EmptyBag
  /\ calls = 0
  /\ destroyed = FALSE
  /\ last = NoLast
  /\ input = NoInput
  /\ output = NoRuns

NextSimpleHash ==
  \/ FetchNFTsFromSimpleHashCalled
  \/ FetchAllNFTsFromSimpleHash
  \/ OnFetchNFTsFromSimpleHash
  \/ TaskReturns

SpecSimpleHash == InitSimpleHash /\ [][NextSimpleHash]_vars

\* The transaction with the given id as the lifecycle leaves it once sent:
\* approved by ApproveTransaction, with the window of the fetched blockhash,
\* or by ProcessSolanaHardwareSignature, which sets none.
SubmittedStoreMetas(id) ==
  UNION { { SentMeta(ApprovedMeta(NewUnapprovedMeta(id, chain_id, data), bh, lvbh),
                     TRUE, tx_hash) :
              tx_hash \in PendingTxHashes(id), bh \in LatestBlockhashes,
              lvbh \in LastValidBlockHeights }
          \cup { SentMeta(HardwareApprovedMeta(NewUnapprovedMeta(id, chain_id, data)),
                          TRUE, tx_hash) : tx_hash \in PendingTxHashes(id) } :
          chain_id \in Chains,
          data \in {d \in TxDataInputs : d.recent_blockhash = ""} }

\* The stores of one up to MaxSubmitted Submitted transactions.
SubmittedStores ==
  UNION { { store \in [1..n -> UNION {SubmittedStoreMetas(id) : id \in 1..n}] :
              \A id \in 1..n : store[id].id = id } : n \in 1..MaxSubmitted }

InitConverge ==
  /\ txs \in SubmittedStores
  /\ nextId = Len(txs) + 1
  /\ inflight = EmptyBag
  /\ calls = 0
  /\ destroyed = FALSE
  /\ last = NoLast
  /\ input = NoInput
  /\ output = NoOutput

\* SolanaTxManager::OnLatestBlockhashUpdated as the block tracker calls it,
\* on every tick of its timer and without end. A tick for a chain without
\* a Submitted transaction polls an empty list and changes nothing: it is
\* left out.
OnLatestBlockhashUpdatedByTracker(chain_id) ==
  /\ Ready
  /\ GetTransactionsByStatus(txs, chain_id, "Submitted") # <<>>
  /\ CanIssue(1)
  /\ inflight' = inflight (+) BagOfSeq(UpdatePendingTransactions(txs, chain_id))
  /\ last' = [NoLast EXCEPT !.op = "OnLatestBlockhashUpdated",
                            !.chain_id = chain_id,
                            !.sent = UpdatePendingTransactions(txs, chain_id)]
  /\ UNCHANGED <<txs, nextId, calls, destroyed, input, output>>

BlockTrackerTick == \E chain_id \in Chains : OnLatestBlockhashUpdatedByTracker(chain_id)

\* Reconciliation driven by the block tracker.
NextConverge ==
  \/ BlockTrackerTick
  \/ OnGetBlockHeight
  \/ OnGetSignatureStatuses
  \/ TaskReturns

SpecConverge == InitConverge /\ [][NextConverge]_vars

\* An answer of GetSolanaBlockHeight for the chain that succeeds with a
\* height above the window of every transaction stored for the chain.
HeightAboveWindows(chain_id) ==
  /\ OnGetBlockHeight
  /\ last'.req.chain_id = chain_id
  /\ last'.result.error = kSuccess
  /\ \A id \in DOMAIN txs :
       txs[id].chain_id = chain_id => last'.height > txs[id].last_valid_block_height

\* An answer of GetSolanaSignatureStatuses for the chain, in a cycle that
\* fetched such a height, that succeeds with one entry per signature, each
\* either absent or carrying an error or "finalized", and whose writes the
\* store accepts.
SettlingStatuses(chain_id) ==
  /\ OnGetSignatureStatuses
  /\ last'.req.chain_id = chain_id
  /\ last'.result.error = kSuccess
  /\ Len(last'.statuses) = Len(last'.req.tx_meta_ids)
  /\ \A i \in DOMAIN last'.statuses :
       \/ ~last'.statuses[i].present
       \/ last'.statuses[i].err # ""
       \/ last'.statuses[i].confirmation_status = "finalized"
  /\ \A id \in DOMAIN txs :
       txs[id].chain_id = chain_id
         => last'.req.block_height > txs[id].last_valid_block_height
  /\ last'.rejected = <<>>

\* The premises of convergence: the tracker keeps notifying the manager for
\* every chain with a Submitted transaction; the RPC service keeps answering,
\* again and again with a height above the windows and with signature
\* statuses that are absent, failed or finalized; the store takes the
\* writes; and the sequence runs every task posted to it.
FairSpecConverge ==
  /\ SpecConverge
  /\ \A chain_id \in Chains :
       /\ SF_vars(OnLatestBlockhashUpdatedByTracker(chain_id))
       /\ SF_vars(HeightAboveWindows(chain_id))
       /\ SF_vars(SettlingStatuses(chain_id))
  /\ SF_vars(OnGetBlockHeight)
  /\ SF_vars(OnGetSignatureStatuses)
  /\ WF_vars(TaskReturns)

\* Paginated fetches alone.
NextFetchAll ==
  \/ FetchAllNFTsFromSimpleHash
  \/ OnFetchNFTsFromSimpleHash
  \/ TaskReturns

SpecFetchAll == InitSimpleHash /\ [][NextFetchAll]_vars

\* The URL loader completes every request, with a response or with an
\* error, and the sequence the client lives on runs every task posted to
\* it: the response of a request is handled although the tasks of other
\* requests run in between.
FairSpecFetchAll ==
  /\ SpecFetchAll
  /\ \A id \in 1..MaxCalls : SF_vars(OnFetchNFTsFromSimpleHashOf(id))
  /\ WF_vars(TaskReturns)

\* ------------------------------------------------------------ properties
\* The metas handed to AddOrUpdateTx in the step recorded in r: the writes
\* the store accepted, then the ones it rejected.
Attempted(r) == r.writes \o r.rejected

InSeq(x, s) == \E k \in DOMAIN s : s[k] = x

IsSendRequest(r) == r.rpc = "SendSolanaTransaction"

\* The step just taken answered one of the two fetches of ApproveTransaction.
IsApproveFetchAnswer(r) ==
  r.op \in {"OnGetLatestBlockhash", "OnGetBlockHeightForBlockhash"}

\* C1: whatever calls and callbacks happen, a stored transaction whose status
\* is Submitted never has its status changed to Approved, nor back to
\* Unapproved, under the same id.
C1_SubmittedNeverReapproved ==
  [][\A id \in DOMAIN txs \cap DOMAIN txs' :
       txs[id].status = "Submitted"
         => txs'[id].status \notin {"Approved", "Unapproved"}]_vars

\* C2: ApproveTransaction on a stored transaction with an empty blockhash
\* issues exactly one request, GetLatestBlockhash, and the answer's blockhash
\* and last-valid-block-height are what the approval hands to storage; with a
\* blockhash already set it issues exactly one request, GetSolanaBlockHeight,
\* the blockhash is kept and last_valid_block_height = returned height + 150.
\* A SendSolanaTransaction of an approval is only ever issued by the step that
\* handles the answer of that fetch.
C2_FetchBeforeSend ==
  [][/\ (last'.op = "ApproveTransaction" /\ HasTx(txs, last'.arg)) =>
          /\ Len(last'.sent) = 1
          /\ inflight' = inflight (+) SetToBag({last'.sent[1]})
          /\ last'.sent[1].rpc = (IF txs[last'.arg].recent_blockhash = ""
                                  THEN "GetLatestBlockhash"
                                  ELSE "GetSolanaBlockHeight")
          /\ last'.sent[1].meta = txs[last'.arg]
          /\ txs' = txs
     /\ (last'.op = "OnGetLatestBlockhash" /\ last'.result.error = kSuccess) =>
          /\ last'.req.rpc = "GetLatestBlockhash"
          /\ last'.req.meta.recent_blockhash = ""
          /\ Len(Attempted(last')) = 1
          /\ Attempted(last')[1].id = last'.req.meta.id
          /\ Attempted(last')[1].recent_blockhash = last'.blockhash
          /\ Attempted(last')[1].last_valid_block_height = last'.height
          /\ (last'.writes # <<>> => txs'[last'.req.meta.id] = last'.writes[1])
     /\ (last'.op = "OnGetBlockHeightForBlockhash" /\ last'.result.error = kSuccess) =>
          /\ last'.req.rpc = "GetSolanaBlockHeight"
          /\ last'.req.meta.recent_blockhash # ""
          /\ Len(Attempted(last')) = 1
          /\ Attempted(last')[1].id = last'.req.meta.id
          /\ Attempted(last')[1].recent_blockhash = last'.req.meta.recent_blockhash
          /\ Attempted(last')[1].last_valid_block_height = last'.height + 150
          /\ (last'.writes # <<>> => txs'[last'.req.meta.id] = last'.writes[1])
     /\ \A r \in BagToSet(inflight') :
           (IsSendRequest(r) /\ r.callback = "ApproveTransaction"
            /\ CopiesIn(r, inflight') > CopiesIn(r, inflight)) =>
             /\ IsApproveFetchAnswer(last')
             /\ last'.result.error = kSuccess
             /\ last'.req.meta.id = r.tx_meta_id
             /\ CopiesIn(last'.req, inflight') < CopiesIn(last'.req, inflight)
     ]_vars

\* An approval of a transaction that already had a blockhash stored the
\* blockhash unchanged with the window computed from the fetched height.
C2_Witness ==
  /\ last.op = "OnGetBlockHeightForBlockhash"
  /\ last.writes # <<>>
  /\ last.req.meta.recent_blockhash = "B0"
  /\ txs[last.req.meta.id].recent_blockhash = "B0"
  /\ txs[last.req.meta.id].last_valid_block_height = last.height + 150

\* C3: when a fetch of an approval is answered without error, one single
\* AddOrUpdateTx carries status Approved together with the blockhash and the
\* last-valid-block-height; SendSolanaTransaction is issued exactly when the
\* store accepted that write; when it rejected it nothing is sent, nothing is
\* stored and the callback reports an internal error.
C3_OneWriteThenSend ==
  [][(IsApproveFetchAnswer(last') /\ last'.result.error = kSuccess) =>
       /\ Len(Attempted(last')) = 1
       /\ LET m == Attempted(last')[1]
              bh == IF last'.op = "OnGetLatestBlockhash"
                    THEN last'.blockhash ELSE last'.req.blockhash
              lvbh == IF last'.op = "OnGetLatestBlockhash"
                      THEN last'.height ELSE last'.height + 150
          IN /\ m = [last'.req.meta EXCEPT !.status = "Approved",
                                             !.recent_blockhash = bh,
                                             !.last_valid_block_height = lvbh]
             /\ IF last'.writes # <<>>
                THEN /\ txs' = AddOrUpdateTx(txs, m)
                     /\ Len(last'.sent) = 1
                     /\ IsSendRequest(last'.sent[1])
                     /\ last'.sent[1].tx_meta_id = m.id
                     /\ last'.cb = NoCallback
                ELSE /\ txs' = txs
                     /\ last'.sent = <<>>
                     /\ inflight' = inflight (-) SetToBag({last'.req})
                     /\ ~last'.cb.success
                     /\ last'.cb.error = kInternalError
                     /\ last'.cb.error_message = IDS_WALLET_INTERNAL_ERROR
     ]_vars

\* An approval wrote status, blockhash and window at once and then sent.
C3_Witness ==
  /\ last.op = "OnGetLatestBlockhash"
  /\ last.req.meta.status = "Unapproved"
  /\ Len(last.writes) = 1
  /\ txs[last.req.meta.id].status = "Approved"
  /\ txs[last.req.meta.id].recent_blockhash = "B1"
  /\ txs[last.req.meta.id].last_valid_block_height = 2
  /\ Len(last.sent) = 1
  /\ IsSendRequest(last.sent[1])

\* C4: when the blockhash fetch or the block-height fetch of an approval
\* returns an RPC error, the approve callback is run with failure and exactly
\* that error code and message, no SendSolanaTransaction is issued and the
\* store is left as it was.
C4_FetchErrorVerbatim ==
  [][(IsApproveFetchAnswer(last') /\ last'.result.error # kSuccess) =>
       /\ last'.cb.name = last'.req.callback
       /\ ~last'.cb.success
       /\ last'.cb.error = last'.result.error
       /\ last'.cb.error_message = last'.result.error_message
       /\ last'.sent = <<>>
       /\ inflight' = inflight (-) SetToBag({last'.req})
       /\ Attempted(last') = <<>>
       /\ txs' = txs
     ]_vars

\* A block-height fetch failed for a transaction that is still Unapproved and
\* the callback carried the RPC's error.
C4_Witness ==
  /\ last.op = "OnGetBlockHeightForBlockhash"
  /\ last.result.error = "kMethodNotFound"
  /\ last.cb.error = "kMethodNotFound"
  /\ last.cb.error_message = "rpc error"
  /\ HasTx(txs, last.req.meta.id)
  /\ txs[last.req.meta.id].status = "Unapproved"
  /\ txs[last.req.meta.id].last_valid_block_height = 0

\* The step just taken handled the answer to SendSolanaTransaction for a
\* transaction that is in storage.
SendAnswered == last.op = "OnSendSolanaTransaction" /\ last.before # NoMeta

\* The block-height request UpdatePendingTransactions issues for one chain.
ReconciliationOf(chain_id) ==
  [NoReq EXCEPT !.rpc = "GetSolanaBlockHeight", !.handler = "OnGetBlockHeight",
                !.chain_id = chain_id]

\* C5 as stated: on the SendTransaction response for a stored transaction, a
\* success response sets status Submitted, records the returned hash and a
\* submission time, and then triggers UpdatePendingTransactions for that
\* transaction's chain; a failure response sets status Error and triggers no
\* reconciliation.
C5_Original ==
  SendAnswered =>
    /\ Len(Attempted(last)) = 1
    /\ IF last.result.error = kSuccess
       THEN /\ Attempted(last)[1] = [last.before EXCEPT !.status = "Submitted",
                                                       !.tx_hash = last.tx_hash,
                                                       !.submitted_time = TimeNow]
            /\ last.sent = <<ReconciliationOf(last.before.chain_id)>>
       ELSE /\ Attempted(last)[1] = [last.before EXCEPT !.status = "Error"]
            /\ last.sent = <<>>

\* C5, amended: on the SendTransaction response for a stored transaction, a
\* success response hands storage the transaction with status Submitted, the
\* returned hash and a submission time, and a failure response hands it the
\* transaction with status Error; UpdatePendingTransactions for the
\* transaction's chain is triggered exactly when the response was a success
\* and the store accepted the write. When the store rejects the write nothing
\* is stored, no reconciliation is triggered and the callback reports an
\* internal error.
C5_SendResponse ==
  SendAnswered =>
    /\ Len(Attempted(last)) = 1
    /\ Attempted(last)[1] =
         (IF last.result.error = kSuccess
          THEN [last.before EXCEPT !.status = "Submitted",
                                   !.tx_hash = last.tx_hash,
                                   !.submitted_time = TimeNow]
          ELSE [last.before EXCEPT !.status = "Error"])
    /\ IF last.writes # <<>>
       THEN /\ txs[last.before.id] = last.writes[1]
            /\ last.sent = (IF last.result.error = kSuccess
                            THEN <<ReconciliationOf(last.before.chain_id)>>
                            ELSE <<>>)
       ELSE /\ txs[last.before.id] = last.before
            /\ last.sent = <<>>
            /\ ~last.cb.success
            /\ last.cb.error = kInternalError
            /\ last.cb.error_message = IDS_WALLET_INTERNAL_ERROR

\* A successful send was stored as Submitted with its hash and time, and the
\* reconciliation of its chain was triggered.
C5_Witness ==
  /\ SendAnswered
  /\ last.result.error = kSuccess
  /\ last.before.status = "Approved"
  /\ txs[last.before.id].status = "Submitted"
  /\ txs[last.before.id].tx_hash = "H1"
  /\ txs[last.before.id].submitted_time = TimeNow
  /\ last.sent = <<ReconciliationOf(last.before.chain_id)>>

\* The step just taken ran the loop of OnGetSignatureStatuses over the polled
\* ids.
Reconciled(r) ==
  /\ r.op = "OnGetSignatureStatuses"
  /\ r.result.error = kSuccess
  /\ Len(r.statuses) = Len(r.req.tx_meta_ids)

\* C6 as stated: in a reconciliation cycle, every Submitted transaction for
\* which the RPC returned no signature status and whose last_valid_block_height
\* is less than the chain height fetched in that cycle is set to Dropped and
\* persisted.
C6_Original ==
  [][Reconciled(last') =>
       \A i \in DOMAIN last'.req.tx_meta_ids :
         LET id == last'.req.tx_meta_ids[i] IN
           (/\ HasTx(txs, id)
            /\ txs[id].status = "Submitted"
            /\ ~last'.statuses[i].present
            /\ txs[id].last_valid_block_height < last'.req.block_height)
           => /\ InSeq([txs[id] EXCEPT !.status = "Dropped"], Attempted(last'))
              /\ (InSeq([txs[id] EXCEPT !.status = "Dropped"], last'.writes)
                    => txs'[id].status = "Dropped")
     ]_vars

\* C6, amended: in a reconciliation cycle, every Submitted transaction for
\* which the RPC returned no signature status and whose last_valid_block_height
\* is not 0 and less than the chain height fetched in that cycle is handed to
\* storage with status Dropped, and is Dropped in storage when the store
\* accepts the write; one whose last_valid_block_height is 0 is left alone.
C6_DroppedPastWindow ==
  [][Reconciled(last') =>
       \A i \in DOMAIN last'.req.tx_meta_ids :
         LET id == last'.req.tx_meta_ids[i] IN
           (/\ HasTx(txs, id)
            /\ txs[id].status = "Submitted"
            /\ ~last'.statuses[i].present)
           => IF /\ txs[id].last_valid_block_height # 0
                 /\ txs[id].last_valid_block_height < last'.req.block_height
              THEN /\ InSeq([txs[id] EXCEPT !.status = "Dropped"], Attempted(last'))
                   /\ (InSeq([txs[id] EXCEPT !.status = "Dropped"], last'.writes)
                         => txs'[id].status = "Dropped")
              ELSE /\ \A k \in DOMAIN Attempted(last') : Attempted(last')[k].id # id
                   /\ txs'[id] = txs[id]
     ]_vars

\* A transaction whose window (2) lies below the fetched height (200) got no
\* signature status and is Dropped in storage.
C6_Witness ==
  /\ Reconciled(last)
  /\ \E i \in DOMAIN last.req.tx_meta_ids :
       /\ ~last.statuses[i].present
       /\ HasTx(txs, last.req.tx_meta_ids[i])
       /\ txs[last.req.tx_meta_ids[i]].status = "Dropped"
       /\ txs[last.req.tx_meta_ids[i]].last_valid_block_height = 2
       /\ last.req.block_height = 200
       /\ InSeq(txs[last.req.tx_meta_ids[i]], last.writes)

\* C7: in a reconciliation cycle, for each polled transaction with a signature
\* status present: a non-empty error field hands storage the transaction with
\* status Error, also when the confirmation status is "finalized"; no error
\* and confirmation status "finalized" hands it status Confirmed with a
\* confirmation time; no error and another non-empty confirmation status hands
\* it the signature status with the lifecycle status as it was, so a Submitted
\* transaction is still among those polled in the next cycle. What the store
\* accepts is what storage holds afterwards.
C7_SignatureStatusApplied ==
  [][Reconciled(last') =>
       \A i \in DOMAIN last'.req.tx_meta_ids :
         LET id == last'.req.tx_meta_ids[i]
             st == last'.statuses[i]
             expected ==
               IF st.err # ""
               THEN [txs[id] EXCEPT !.status = "Error", !.signature_status = st]
               ELSE IF st.confirmation_status = "finalized"
               THEN [txs[id] EXCEPT !.status = "Confirmed",
                                    !.confirmed_time = TimeNow,
                                    !.signature_status = st]
               ELSE [txs[id] EXCEPT !.signature_status = st]
         IN (HasTx(txs, id) /\ txs[id].status = "Submitted" /\ st.present) =>
              IF st.err = "" /\ st.confirmation_status = ""
              THEN txs'[id] = txs[id]
              ELSE /\ InSeq(expected, Attempted(last'))
                   /\ InSeq(expected, last'.writes) => txs'[id] = expected
                   /\ ~InSeq(expected, last'.writes) => txs'[id] = txs[id]
                   /\ (st.err = "" /\ st.confirmation_status # "finalized") =>
                        /\ txs'[id].status = "Submitted"
                        /\ InSeq(id, GetTransactionsByStatus(
                                       txs', txs[id].chain_id, "Submitted"))
     ]_vars

\* A status that is finalized and carries an error left the transaction in
\* Error.
C7_Witness ==
  /\ Reconciled(last)
  /\ \E i \in DOMAIN last.req.tx_meta_ids :
       /\ last.statuses[i].present
       /\ last.statuses[i].err # ""
       /\ last.statuses[i].confirmation_status = "finalized"
       /\ HasTx(txs, last.req.tx_meta_ids[i])
       /\ txs[last.req.tx_meta_ids[i]].status = "Error"
       /\ txs[last.req.tx_meta_ids[i]].signature_status = last.statuses[i]

\* The step just taken was a RetryTransaction that got as far as handing the
\* new transaction to storage.
Retried(r) == r.op = "RetryTransaction" /\ Attempted(r) # <<>>

\* C8: RetryTransaction on a retriable transaction whose message uses a
\* durable nonce hands storage the new transaction with the recent blockhash
\* of the original; on a retriable transaction that does not use a durable
\* nonce, with an empty recent blockhash. What the store accepts is stored
\* under the new id.
C8_RetryBlockhash ==
  Retried(last) =>
    /\ IsRetriable(last.before)
    /\ Len(Attempted(last)) = 1
    /\ Attempted(last)[1].recent_blockhash =
         (IF last.before.uses_durable_nonce
          THEN last.before.recent_blockhash ELSE "")
    /\ last.writes # <<>> =>
         txs[last.writes[1].id].recent_blockhash =
           (IF last.before.uses_durable_nonce
            THEN last.before.recent_blockhash ELSE "")

\* A transaction using a durable nonce was retried and the new transaction
\* holds the original's blockhash.
C8_Witness ==
  /\ Retried(last)
  /\ last.before.uses_durable_nonce
  /\ last.before.recent_blockhash = "B0"
  /\ last.cb.success
  /\ txs[last.cb.id].recent_blockhash = "B0"
  /\ txs[last.cb.id].id # last.before.id

\* C9: a successful RetryTransaction persists a transaction under a newly
\* generated id that differs from the original's id and from every id in
\* storage before the call, with status Unapproved, last_valid_block_height
\* 0, empty transaction hash, reset signature status, unset submission and
\* confirmation times and no raw signatures, and hands that id to the caller.
C9_RetryFreshTransaction ==
  [][(last'.op = "RetryTransaction" /\ last'.cb.success) =>
       /\ last'.cb.id # last'.arg
       /\ last'.cb.id \notin DOMAIN txs
       /\ DOMAIN txs' = DOMAIN txs \cup {last'.cb.id}
       /\ \A id \in DOMAIN txs : txs'[id] = txs[id]
       /\ LET m == txs'[last'.cb.id]
          IN /\ m.id = last'.cb.id
             /\ m.status = "Unapproved"
             /\ m.last_valid_block_height = 0
             /\ m.tx_hash = ""
             /\ m.signature_status = EmptySignatureStatus
             /\ m.submitted_time = TimeUnset
             /\ m.confirmed_time = TimeUnset
             /\ ~m.raw_signatures
             /\ m.chain_id = txs[last'.arg].chain_id
     ]_vars

\* A transaction that had been sent and dropped past its window was retried:
\* the new one is Unapproved with no window, hash or signatures.
C9_Witness ==
  /\ last.op = "RetryTransaction"
  /\ last.cb.success
  /\ last.before.status = "Dropped"
  /\ last.before.tx_hash = "H1"
  /\ last.before.last_valid_block_height # 0
  /\ txs[last.cb.id].status = "Unapproved"
  /\ txs[last.cb.id].tx_hash = ""
  /\ txs[last.cb.id].last_valid_block_height = 0

\* C10: RetryTransaction on an id that is not in storage fails with the
\* not-found error, and on a stored transaction that is not retriable with
\* the not-retriable error; in both cases, and when the store rejects the new
\* transaction, storage is left as it was and the callback carries failure
\* and an empty id.
C10_RetryRefused ==
  [][last'.op = "RetryTransaction" =>
       /\ ~HasTx(txs, last'.arg) =>
            /\ last'.cb.error_message = IDS_BRAVE_WALLET_TRANSACTION_NOT_FOUND
            /\ Attempted(last') = <<>>
       /\ (HasTx(txs, last'.arg) /\ ~IsRetriable(txs[last'.arg])) =>
            /\ last'.cb.error_message = IDS_BRAVE_WALLET_TRANSACTION_NOT_RETRIABLE
            /\ Attempted(last') = <<>>
       /\ last'.rejected # <<>> =>
            last'.cb.error_message = IDS_WALLET_INTERNAL_ERROR
       /\ last'.cb.name = "RetryTransaction"
       /\ ~last'.cb.success =>
            /\ txs' = txs
            /\ last'.cb.id = 0
            /\ last'.writes = <<>>
            /\ last'.sent = <<>>
       /\ last'.cb.success <=>
            /\ HasTx(txs, last'.arg)
            /\ IsRetriable(txs[last'.arg])
            /\ last'.rejected = <<>>
     ]_vars

\* A stored transaction that is not retriable was refused and storage still
\* holds only what it held.
C10_Witness ==
  /\ last.op = "RetryTransaction"
  /\ HasTx(txs, last.arg)
  /\ ~IsRetriable(txs[last.arg])
  /\ last.cb.error_message = IDS_BRAVE_WALLET_TRANSACTION_NOT_RETRIABLE
  /\ last.cb.id = 0
  /\ ~last.cb.success

\* The step just taken answered a blockhash or block-height fetch of an
\* approval or of GetTransactionMessageToSign.
IsBlockhashFetchAnswer(r) ==
  r.op \in {"OnGetLatestBlockhash", "OnGetBlockHeightForBlockhash",
            "OnGetLatestBlockhashHardware", "OnGetBlockHeightForBlockhashHardware"}

\* C11 as stated: in every stored transaction the message's recent blockhash
\* is non-empty exactly when its last_valid_block_height is non-zero.
C11_Original ==
  \A id \in DOMAIN txs :
    (txs[id].recent_blockhash # "") <=> (txs[id].last_valid_block_height # 0)

\* C11, amended: in every stored transaction a non-zero
\* last_valid_block_height comes with a non-empty recent blockhash, and the
\* handlers of approval and of GetTransactionMessageToSign hand storage both
\* values in the same write. A non-empty blockhash may stand with
\* last_valid_block_height 0: RetryTransaction always writes the window 0 and
\* keeps the blockhash of a durable-nonce message.
C11_WindowImpliesBlockhash ==
  /\ \A id \in DOMAIN txs :
       txs[id].last_valid_block_height # 0 => txs[id].recent_blockhash # ""
  /\ (IsBlockhashFetchAnswer(last) /\ Attempted(last) # <<>>) =>
       /\ Len(Attempted(last)) = 1
       /\ Attempted(last)[1].recent_blockhash # ""
       /\ Attempted(last)[1].last_valid_block_height # 0
  /\ Retried(last) =>
       /\ Attempted(last)[1].last_valid_block_height = 0
       /\ (Attempted(last)[1].recent_blockhash # "" <=>
             (last.before.uses_durable_nonce /\ last.before.recent_blockhash # ""))

\* GetTransactionMessageToSign fetched a blockhash for a transaction without
\* one and both values are now stored, the status untouched.
C11_Witness ==
  /\ last.op = "OnGetLatestBlockhashHardware"
  /\ last.req.meta.recent_blockhash = ""
  /\ last.writes # <<>>
  /\ txs[last.req.meta.id].recent_blockhash = "B1"
  /\ txs[last.req.meta.id].last_valid_block_height = 2
  /\ txs[last.req.meta.id].status = "Unapproved"

\* C12: GetEstimatedTxFee for a stored transaction issues exactly one request,
\* GetLatestBlockhash, whether or not the message has a blockhash; when that
\* request is answered without error exactly one GetSolanaFeeForMessage is
\* issued, for the message encoded with the blockhash just fetched, and a
\* GetSolanaFeeForMessage is never issued by another step; when it is answered
\* with an error nothing is issued and the callback gets fee 0 with that error
\* code and message. Storage is not written.
C12_FeeAfterFreshBlockhash ==
  [][/\ (last'.op = "GetEstimatedTxFee" /\ HasTx(txs, last'.arg)) =>
          /\ Len(last'.sent) = 1
          /\ last'.sent[1].rpc = "GetLatestBlockhash"
          /\ last'.sent[1].meta = txs[last'.arg]
          /\ inflight' = inflight (+) SetToBag({last'.sent[1]})
          /\ last'.cb = NoCallback
          /\ txs' = txs
     /\ (last'.op = "OnGetLatestBlockhashForGetEstimatedTxFee"
         /\ last'.result.error = kSuccess) =>
          /\ last'.req.rpc = "GetLatestBlockhash"
          /\ Len(last'.sent) = 1
          /\ last'.sent[1].rpc = "GetSolanaFeeForMessage"
          /\ last'.sent[1].chain_id = last'.req.meta.chain_id
          /\ last'.sent[1].message.recent_blockhash = last'.blockhash
          /\ last'.cb = NoCallback
          /\ txs' = txs
     /\ (last'.op = "OnGetLatestBlockhashForGetEstimatedTxFee"
         /\ last'.result.error # kSuccess) =>
          /\ last'.sent = <<>>
          /\ inflight' = inflight (-) SetToBag({last'.req})
          /\ last'.cb.name = "GetEstimatedTxFee"
          /\ last'.cb.tx_fee = 0
          /\ last'.cb.error = last'.result.error
          /\ last'.cb.error_message = last'.result.error_message
          /\ txs' = txs
     /\ \A r \in BagToSet(inflight') :
          (r.rpc = "GetSolanaFeeForMessage"
           /\ CopiesIn(r, inflight') > CopiesIn(r, inflight)) =>
            /\ last'.op = "OnGetLatestBlockhashForGetEstimatedTxFee"
            /\ last'.result.error = kSuccess
     ]_vars

\* The fee of a transaction that already had blockhash B0 is asked for the
\* message encoded with the fetched blockhash B1.
C12_Witness ==
  /\ last.op = "OnGetLatestBlockhashForGetEstimatedTxFee"
  /\ last.req.meta.recent_blockhash = "B0"
  /\ last.blockhash = "B1"
  /\ Len(last.sent) = 1
  /\ last.sent[1].rpc = "GetSolanaFeeForMessage"
  /\ last.sent[1].message.recent_blockhash = "B1"
  /\ txs[last.req.meta.id].recent_blockhash = "B0"

\* C13: ApproveTransaction, and the handler of the SendSolanaTransaction
\* response, called for an id that is not in storage report an internal error
\* through the callback without ending the process, issue no RPC and leave
\* storage as it was.
C13_MissingTransactionRecoverable ==
  [][((last'.op = "ApproveTransaction" /\ ~HasTx(txs, last'.arg))
      \/ (last'.op = "OnSendSolanaTransaction"
          /\ ~HasTx(txs, last'.req.tx_meta_id))) =>
       /\ ~last'.aborted
       /\ ~destroyed'
       /\ ~last'.cb.success
       /\ last'.cb.error = kInternalError
       /\ last'.cb.error_message = IDS_BRAVE_WALLET_TRANSACTION_NOT_FOUND
       /\ last'.sent = <<>>
       /\ txs' = txs
     ]_vars

\* C14: a successful AddUnapprovedTransaction stores exactly one new
\* transaction, under a freshly generated id that no stored transaction has,
\* with status Unapproved and the given chain id, and hands that id to the
\* caller; when the transaction data cannot be converted or the store rejects
\* the write, the callback reports failure with an empty id and storage is as
\* it was.
C14_AddStoresOneUnapproved ==
  [][last'.op = "AddUnapprovedTransaction" =>
       /\ last'.sent = <<>>
       /\ last'.cb.name = "AddUnapprovedTransaction"
       /\ last'.cb.success <=> last'.writes # <<>>
       /\ IF last'.cb.success
          THEN /\ last'.cb.id # 0
               /\ last'.cb.id \notin DOMAIN txs
               /\ DOMAIN txs' = DOMAIN txs \cup {last'.cb.id}
               /\ \A id \in DOMAIN txs : txs'[id] = txs[id]
               /\ txs'[last'.cb.id].id = last'.cb.id
               /\ txs'[last'.cb.id].status = "Unapproved"
               /\ txs'[last'.cb.id].chain_id = last'.chain_id
               /\ last'.cb.error_message = ""
          ELSE /\ txs' = txs
               /\ last'.cb.id = 0
               /\ last'.cb.error_message =
                    (IF last'.rejected # <<>>
                     THEN IDS_WALLET_INTERNAL_ERROR
                     ELSE IDS_WALLET_SEND_TRANSACTION_CONVERT_TX_DATA)
     ]_vars

\* A second transaction was added beside a stored one, on the other chain.
C14_Witness ==
  /\ last.op = "AddUnapprovedTransaction"
  /\ last.cb.success
  /\ last.cb.id = 2
  /\ HasTx(txs, 1)
  /\ txs[1].chain_id = "mainnet"
  /\ txs[2].chain_id = "devnet"
  /\ txs[2].status = "Unapproved"

\* The step recorded in last is OnGetMerkleTreeAccountInfo, and these are
\* the answer it got and what the decoder and the builder make of it.
AccountAnswered == last.op = "OnGetMerkleTreeAccountInfo"
AnsweredAccount == last.answer[1]
AnsweredTree ==
  DecodeMerkleTreeAuthorityAndDepth(Base64Decode(AnsweredAccount).bytes)
AnsweredInstruction ==
  BubblegumTransfer(AnsweredTree.canopy_depth,
                    Base58Encode(AnsweredTree.authority),
                    last.req.to_wallet_address, last.req.proof)

\* Every step of the construction succeeded in the step recorded in last.
AllStepsSucceeded ==
  /\ AccountAnswered
  /\ last.req.proof.present
  /\ last.result.error = kSuccess
  /\ AnsweredAccount.present
  /\ Base64Decode(AnsweredAccount).present
  /\ AnsweredTree.present
  /\ AnsweredInstruction.present
  /\ last.answer[2]

\* The step recorded in last is the proof answer without a proof, or an
\* account answer at which one of the steps failed.
SomeStepFailed ==
  \/ last.op = "OnFetchCompressedNftProof" /\ ~last.answer[1].present
  \/ AccountAnswered /\ ~AllStepsSucceeded

\* The step recorded in last ran the caller's callback with an internal
\* error and without transaction data.
ReportedInternalError ==
  /\ ~last.aborted
  /\ last.cb.name = "MakeBubbleGumProgramTransferTxData"
  /\ last.cb.error = kInternalError
  /\ ~last.cb.tx_data.present

\* C15: the compressed-NFT transfer construction fetches the proof, then the
\* Merkle-tree account, then decodes the account, then builds the
\* instruction, each step only after the one before succeeded; and a failure
\* at any step (proof absent, account RPC error, account absent, base64 or
\* Merkle decode failure, builder failure, message creation failure) reports
\* an internal error to the caller and produces no transaction data.
C15_FailureIsInternalError ==
  /\ \A k \in DOMAIN last.sent :
       /\ last.sent[k].rpc = "FetchSolCompressedNftProofData"
            => last.op = "MakeBubbleGumProgramTransferTxData"
       /\ last.sent[k].rpc = "GetSolanaAccountInfo"
            => /\ last.op = "OnFetchCompressedNftProof"
               /\ last.answer[1].present
               /\ last.sent[k].proof = last.answer[1]
  /\ last.cb.tx_data.present => AllStepsSucceeded
  /\ SomeStepFailed => ReportedInternalError

\* C16 as stated: when all four steps of the construction succeed, the
\* message has an empty recent blockhash and a new transaction with status
\* Unapproved is persisted in storage.
C16_Original ==
  AllStepsSucceeded =>
    /\ last.cb.tx_data.present
    /\ last.cb.tx_data.recent_blockhash = ""
    /\ \E k \in DOMAIN last.writes : last.writes[k].status = "Unapproved"

\* C16: when all four steps of the construction succeed, the caller's
\* callback is run with kSuccess and the transaction data of a compressed-NFT
\* transfer to the recipient asked for, whose message has an empty recent
\* blockhash, no last valid block height, the proof's owner as fee payer and
\* the one bubblegum instruction; the construction hands nothing to storage
\* at any of its steps, so that a stored transaction only comes from
\* AddUnapprovedTransaction.
C16_SuccessHandsTxData ==
  /\ AllStepsSucceeded =>
       /\ ~last.aborted
       /\ last.cb.name = "MakeBubbleGumProgramTransferTxData"
       /\ last.cb.error = kSuccess
       /\ last.cb.error_message = ""
       /\ last.cb.tx_data.present
       /\ last.cb.tx_data.recent_blockhash = ""
       /\ last.cb.tx_data.last_valid_block_height = 0
       /\ last.cb.tx_data.tx_type = "SolanaCompressedNftTransfer"
       /\ last.cb.tx_data.to_wallet_address = last.req.to_wallet_address
       /\ last.cb.tx_data.fee_payer = last.req.proof.owner
       /\ last.cb.tx_data.instructions = <<AnsweredInstruction>>
  /\ Attempted(last) # <<>> => last.op = "AddUnapprovedTransaction"

\* A construction whose four steps succeeded, for a tree with a canopy.
C16_Witness ==
  /\ AllStepsSucceeded
  /\ AnsweredTree.canopy_depth = 1
  /\ last.cb.tx_data.present
  /\ Len(last.cb.tx_data.instructions[1].data) = 116
  /\ txs = <<>>

\* C17: if the manager is destroyed while an RPC or indexer request issued
\* by it is outstanding, the later response is a no-op: it changes no stored
\* transaction, issues no further request and runs no caller callback; the
\* only thing that happens once the manager is gone is that outstanding
\* requests are answered and dropped.
C17_AnswerAfterDestroyIsNoOp ==
  [][destroyed =>
       /\ txs' = txs
       /\ nextId' = nextId
       /\ destroyed'
       /\ \A r \in BagToSet(inflight') :
            CopiesIn(r, inflight') <= CopiesIn(r, inflight)
       /\ last' # NoLast =>
            /\ last'.op = "AnswerAfterDestroy"
            /\ BagIn(last'.req, inflight)
            /\ inflight' = inflight (-) SetToBag({last'.req})
            /\ last'.cb = NoCallback
            /\ last'.sent = <<>>
            /\ Attempted(last') = <<>>
            /\ ~last'.aborted]_vars

\* The answer to SendSolanaTransaction arrived after the manager was
\* destroyed, with the transaction it was sent for still Approved.
C17_Witness ==
  /\ destroyed
  /\ last.op = "AnswerAfterDestroy"
  /\ last.req.rpc = "SendSolanaTransaction"
  /\ HasTx(txs, last.req.tx_meta_id)
  /\ txs[last.req.tx_meta_id].status = "Approved"

\* The chains with at least one Submitted transaction in the store.
SubmittedChains ==
  {txs[id].chain_id : id \in {i \in DOMAIN txs : txs[i].status = "Submitted"}}

\* The ids of the transactions Submitted on the chain.
SubmittedOn(chain_id) ==
  {id \in DOMAIN txs : txs[id].status = "Submitted" /\ txs[id].chain_id = chain_id}

\* C18: one call of UpdatePendingTransactions with no chain specified issues
\* exactly one GetBlockHeight request for each distinct chain id that has at
\* least one Submitted transaction and none for any other chain; each
\* successful block-height response then issues exactly one
\* GetSignatureStatuses request carrying the hashes of all transactions
\* currently Submitted on that chain, in the same order as the transaction
\* ids the response is matched against (a failed one issues nothing).
C18_OneRoundTripPerChain ==
  /\ last.op = "UpdatePendingTransactions" =>
       /\ \A k \in DOMAIN last.sent :
            /\ last.sent[k].rpc = "GetSolanaBlockHeight"
            /\ last.sent[k].handler = "OnGetBlockHeight"
       /\ \A c \in Chains \cup SubmittedChains :
            Cardinality({k \in DOMAIN last.sent : last.sent[k].chain_id = c})
              = (IF c \in SubmittedChains THEN 1 ELSE 0)
       /\ Len(last.sent) = Cardinality(SubmittedChains)
  /\ last.op = "OnGetBlockHeight" =>
       IF last.result.error # kSuccess
       THEN last.sent = <<>>
       ELSE /\ Len(last.sent) = 1
            /\ LET r == last.sent[1]
               IN /\ r.rpc = "GetSolanaSignatureStatuses"
                  /\ r.chain_id = last.req.chain_id
                  /\ {r.tx_meta_ids[i] : i \in DOMAIN r.tx_meta_ids}
                       = SubmittedOn(r.chain_id)
                  /\ Len(r.tx_meta_ids) = Cardinality(SubmittedOn(r.chain_id))
                  /\ Len(r.tx_signatures) = Len(r.tx_meta_ids)
                  /\ \A i \in DOMAIN r.tx_meta_ids :
                       r.tx_signatures[i] = txs[r.tx_meta_ids[i]].tx_hash

\* A block-height answer for a chain with two Submitted transactions of
\* different hashes, after a call that asked one chain for both of them.
C18_Witness ==
  /\ last.op = "OnGetBlockHeight"
  /\ last.result.error = kSuccess
  /\ Len(last.sent) = 1
  /\ Len(last.sent[1].tx_signatures) = 2
  /\ last.sent[1].tx_signatures[1] # last.sent[1].tx_signatures[2]

\* spl_token_program::Transfer has been applied to the arguments in input.
BuiltSplTokenTransfer ==
  input.fn = "spl_token_program::Transfer" /\ output.done

\* bubblegum_program::Transfer has been applied to the arguments in input.
BuiltBubblegumTransfer ==
  input.fn = "bubblegum_program::Transfer" /\ output.done

\* The bytes data[from + 1 .. from + 2 * Len(val)] are the number val in
\* little-endian order: each is a byte, and every two make one word of val.
EncodesLE(data, from, val) ==
  \A k \in DOMAIN val :
    /\ data[from + 2 * k - 1] \in 0..255
    /\ data[from + 2 * k] \in 0..255
    /\ data[from + 2 * k - 1] + 256 * data[from + 2 * k] = val[k]

\* C21: spl_token_program Transfer returns absent when the program id,
\* source, destination or authority is empty; otherwise the data is exactly
\* 9 bytes (the 1-byte transfer tag, then the amount as 8 little-endian
\* bytes) and the accounts are source (non-signer, writable), destination
\* (non-signer, writable), authority (read-only, signer exactly when there
\* are no co-signers), then one read-only signer account per co-signer in
\* the given order.
C21_TokenTransferLayout ==
  BuiltSplTokenTransfer =>
    LET r == output.result
        n == Len(input.signer_pubkeys)
    IN IF \/ input.token_program_id = NoAddress
          \/ input.source_pubkey = NoAddress
          \/ input.destination_pubkey = NoAddress
          \/ input.authority_pubkey = NoAddress
       THEN ~r.present
       ELSE /\ r.present
            /\ r.program_id = input.token_program_id
            /\ Len(r.data) = 9
            /\ r.data[1] = kSolanaTokenInstructionTransfer
            /\ EncodesLE(r.data, 1, input.amount)
            /\ Len(r.accounts) = 3 + n
            /\ r.accounts[1] = [pubkey |-> input.source_pubkey,
                                is_signer |-> FALSE, is_writable |-> TRUE]
            /\ r.accounts[2] = [pubkey |-> input.destination_pubkey,
                                is_signer |-> FALSE, is_writable |-> TRUE]
            /\ r.accounts[3] = [pubkey |-> input.authority_pubkey,
                                is_signer |-> (n = 0), is_writable |-> FALSE]
            /\ \A i \in 1..n :
                 r.accounts[3 + i] = [pubkey |-> input.signer_pubkeys[i],
                                      is_signer |-> TRUE, is_writable |-> FALSE]

\* A token transfer of 2^32 + 5 built with two co-signers, the second key
\* before the first.
C21_Witness ==
  /\ BuiltSplTokenTransfer
  /\ output.result.present
  /\ input.amount = <<5, 0, 1, 0>>
  /\ input.signer_pubkeys = <<AddressOf(52), AddressOf(51)>>
  /\ ~output.result.accounts[3].is_signer

\* C22: every instruction produced by bubblegum_program Transfer has data of
\* exactly 116 bytes: the 8-byte discriminator
\* [163,52,200,231,140,3,69,186], the 32 decoded bytes of root, of data_hash
\* and of creator_hash in that order, the leaf index as 8 little-endian
\* bytes, then the leaf index (its low 32 bits) as 4 little-endian bytes; if
\* root, data_hash or creator_hash does not decode to exactly 32 bytes the
\* result is absent.
C22_BubblegumData ==
  BuiltBubblegumTransfer =>
    LET r == output.result
        proof == input.proof
    IN /\ r.present =>
            /\ Len(r.data) = 116
            /\ SubSeq(r.data, 1, 8) = <<163, 52, 200, 231, 140, 3, 69, 186>>
            /\ SubSeq(r.data, 9, 40) = proof.root.base58
            /\ SubSeq(r.data, 41, 72) = proof.data_hash.base58
            /\ SubSeq(r.data, 73, 104) = proof.creator_hash.base58
            /\ EncodesLE(r.data, 104, proof.leaf_index)
            /\ EncodesLE(r.data, 112, SubSeq(proof.leaf_index, 1, 2))
       /\ (\/ Len(proof.root.base58) # 32
           \/ Len(proof.data_hash.base58) # 32
           \/ Len(proof.creator_hash.base58) # 32)
            => ~r.present /\ ~r.undefined

\* An instruction built for leaf index 70000, a number of two words.
C22_Witness ==
  /\ BuiltBubblegumTransfer
  /\ output.result.present
  /\ input.proof.leaf_index = Uint64(70000)
  /\ Len(output.result.data) = 116
  /\ Len(input.proof.proof) = 2

\* C23: bubblegum_program Transfer(canopy_depth, tree_authority, new_owner,
\* proof) appends, after the fixed prefix of 8 accounts, exactly
\* len(proof.proof) - canopy_depth accounts: the first
\* len(proof.proof) - canopy_depth entries of the proof path in order, all
\* non-signer and non-writable, where canopy_depth is the canopy_depth
\* argument of the call.
C23_SliceByArgument ==
  (BuiltBubblegumTransfer /\ output.result.present
     /\ input.canopy_depth <= Len(input.proof.proof)) =>
    LET r == output.result
        n == Len(input.proof.proof) - input.canopy_depth
    IN /\ Len(r.accounts) = 8 + n
       /\ \A i \in 1..n :
            r.accounts[8 + i] = [pubkey |-> input.proof.proof[i],
                                 is_signer |-> FALSE, is_writable |-> FALSE]

\* C24: when the canopy depth is greater than the length of the proof path,
\* bubblegum_program Transfer returns absent: the subtraction
\* len(proof_path) - canopy_depth does not wrap and no entry beyond the end
\* of the path is read. The canopy depth is the one the subtraction uses.
C24_DeepCanopyIsAbsent ==
  (BuiltBubblegumTransfer
     /\ input.proof.canopy_depth > Len(input.proof.proof)) =>
    /\ ~output.result.present
    /\ ~output.result.undefined

\* C29: in the data of a bubblegum Transfer instruction the 8-byte nonce
\* field and the 4-byte index field encode the same leaf-index value, for
\* every leaf_index of the proof, also one of 2^32 or more: the low four
\* bytes of the nonce are the index and the high four are zero.
C29_NonceEqualsIndex ==
  (BuiltBubblegumTransfer /\ output.result.present) =>
    LET data == output.result.data
    IN /\ SubSeq(data, 105, 108) = SubSeq(data, 113, 116)
       /\ SubSeq(data, 109, 112) = <<0, 0, 0, 0>>

\* The statuses reconciliation ends a transaction with.
TerminalStatuses == {"Confirmed", "Error", "Dropped"}

\* C30: once a stored transaction's status is Confirmed, Error or Dropped, no
\* reconciliation callback changes its status again, also not the
\* signature-status response of an overlapping reconciliation cycle that
\* listed the transaction while it was still Submitted.
C30_TerminalStatusKept ==
  [][\A id \in DOMAIN txs :
       (/\ txs[id].status \in TerminalStatuses
        /\ last'.op \in {"UpdatePendingTransactions", "OnLatestBlockhashUpdated",
                         "OnGetBlockHeight", "OnGetSignatureStatuses"})
         => /\ id \in DOMAIN txs'
            /\ txs'[id].status = txs[id].status]_vars

\* The decoder has been applied to the buffer in input.
Decoded ==
  input.fn = "DecodeMerkleTreeAuthorityAndDepth" /\ output.done

\* The 32-bit little-endian number at offset (counted from 0) of the data.
LittleEndian32(data, offset) ==
  data[offset + 1] + 256 * data[offset + 2] + 65536 * data[offset + 3]
  + 16777216 * data[offset + 4]

\* The length of the full layout a buffer of at least 10 bytes implies:
\* header, change-log ring buffer and rightmost path.
ImpliedLayout(data) ==
  (1 + 1 + 4 + 4 + 32 + 8 + 6) + (8 + 8 + 8)
  + LittleEndian32(data, 2) * (32 + 32 * LittleEndian32(data, 6) + 4 + 4)
  + (32 * LittleEndian32(data, 6) + 32 + 4 + 4)

\* The sum C28 names for the buffer in input: header, creation slot,
\* padding, change-log ring buffer and rightmost path.
C28_NamedLayout ==
  (1 + 1 + 4 + 4 + 32 + 8 + 6)
  + LittleEndian32(input.data, 2) * (32 + 32 * LittleEndian32(input.data, 6) + 4 + 4)
  + (32 * LittleEndian32(input.data, 6) + 32 + 4 + 4)

C19_MalformedIsAbsent ==
  Decoded =>
    LET data == input.data
        malformed ==
          \/ Len(data) < 10
          \/ data[1] # 1
          \/ data[2] # 0
          \/ Len(data) < ImpliedLayout(data)
    IN malformed => ~output.result.present

\* The buffer in input is well formed: account type 1, version 0 and at least
\* as long as the layout its header implies.
WellFormed ==
  /\ Len(input.data) >= 10
  /\ input.data[1] = 1
  /\ input.data[2] = 0
  /\ Len(input.data) >= ImpliedLayout(input.data)

\* C20: for a well-formed Merkle-tree account buffer with b trailing canopy
\* bytes the decoder returns canopy depth 0 when b = 0 and
\* floor(log2(b / 32 + 2) - 1) when b > 0, that is the depth d with
\* 2^(d + 1) <= b / 32 + 2 < 2^(d + 2); so a canopy of 32 * (2^(d + 1) - 2)
\* bytes decodes to d. The authority returned is the 32 bytes at offset 10.
C20_CanopyDepthAndAuthority ==
  (Decoded /\ WellFormed) =>
    LET b == Len(input.data) - ImpliedLayout(input.data)
        d == output.result.canopy_depth
    IN /\ output.result.present
       /\ output.result.authority = SubSeq(input.data, 11, 42)
       /\ b = 0 => d = 0
       /\ b > 0 => /\ 32 * 2^(d + 1) <= b + 64
                   /\ b + 64 < 32 * 2^(d + 2)
       /\ \A k \in 0..3 : b = 32 * (2^(k + 1) - 2) => d = k

\* A buffer with a change log and a canopy of 192 = 32 * (2^3 - 2) bytes
\* decoded to depth 2.
C20_Witness ==
  /\ Decoded
  /\ WellFormed
  /\ LittleEndian32(input.data, 2) = 1
  /\ LittleEndian32(input.data, 6) = 2
  /\ Len(input.data) = ImpliedLayout(input.data) + 192
  /\ output.result.present
  /\ output.result.canopy_depth = 2

\* ------------------------------------------------- NFT indexer client
\* ParseNFTsFromSimpleHash was applied to a page whose elements are all
\* valid.
ParsedValidPage ==
  /\ input.fn = "ParseNFTsFromSimpleHash"
  /\ output.done
  /\ input.json_value.well_formed
  /\ \A i \in DOMAIN input.json_value.nfts : input.json_value.nfts[i].valid

\* C27: over a page of valid records ParseNFTsFromSimpleHash returns exactly
\* the records with spam score 0 under skip_spam alone, exactly the records
\* with a spam score above 0 under only_spam alone, every record under
\* neither flag, each time in input order, and nothing under both flags.
C27_SpamFilter ==
  ParsedValidPage =>
    LET nfts == input.json_value.nfts
        result == output.result
    IN /\ (input.skip_spam /\ ~input.only_spam) =>
            /\ result.present
            /\ result.nfts = SelectSeq(nfts, LAMBDA nft : nft.spam_score = 0)
       /\ (~input.skip_spam /\ input.only_spam) =>
            /\ result.present
            /\ result.nfts = SelectSeq(nfts, LAMBDA nft : nft.spam_score > 0)
       /\ (~input.skip_spam /\ ~input.only_spam) =>
            /\ result.present
            /\ result.nfts = nfts
       /\ (input.skip_spam /\ input.only_spam) => ~result.present

\* A page of a spam record followed by a non-spam one was parsed under
\* only_spam alone, and the spam record came back.
C27_Witness ==
  /\ ParsedValidPage
  /\ input.json_value.nfts = <<Spam3, NonSpam1>>
  /\ ~input.skip_spam
  /\ input.only_spam
  /\ output.result.present
  /\ output.result.nfts = <<Spam3>>

\* No chain id of the list has a slug at the indexer.
NoSupportedChain(chain_ids) ==
  \A i \in DOMAIN chain_ids :
    chain_ids[i] \notin {kMainnetChainId, kOptimismMainnetChainId}

\* The step just taken ran the callback of FetchNFTsFromSimpleHash with an
\* empty record list and no cursor.
CompletedWithEmptyPage ==
  /\ last.cb.name = "FetchNFTsFromSimpleHash"
  /\ last.cb.id = last.fetch.call
  /\ last.cb.nfts = <<>>
  /\ last.cb.cursor = ""

\* The step just taken ran the callback of FetchAllNFTsFromSimpleHash with
\* the given records.
CompletedAllWith(nfts) ==
  /\ last.cb.name = "FetchAllNFTsFromSimpleHash"
  /\ last.cb.id = last.fetch.call
  /\ last.cb.nfts = nfts

\* The step just taken handled a response that is not 2xx.
AnsweredNon2xx ==
  /\ last.op = "OnFetchNFTsFromSimpleHash"
  /\ (last.answer[1].status < 200 \/ last.answer[1].status > 299)

\* C26: FetchNFTsFromSimpleHash called with an empty wallet address, with a
\* chain list that is empty or has no supported chain, or with an
\* unsupported coin type runs its callback with an empty record list and no
\* cursor and issues no request; a response that is not 2xx gives the same
\* empty page, and a FetchAllNFTsFromSimpleHash it belongs to then ends with
\* the records collected so far.
C26_EmptyPageOnBadInputOrStatus ==
  /\ (/\ last.op = "FetchNFTsFromSimpleHash"
      /\ \/ last.fetch.account_address = ""
         \/ NoSupportedChain(last.fetch.chain_ids)
         \/ last.fetch.coin \notin {"ETH", "SOL"})
     => (CompletedWithEmptyPage /\ last.sent = <<>>)
  /\ (AnsweredNon2xx /\ last.fetch.callback = "FetchNFTsFromSimpleHashCallback")
     => (CompletedWithEmptyPage /\ last.sent = <<>>)
  /\ (AnsweredNon2xx /\ last.fetch.callback = "OnFetchAllNFTsFromSimpleHash")
     => (CompletedAllWith(last.fetch.nfts_so_far) /\ last.sent = <<>>)

\* FetchNFTsFromSimpleHash was called for a served coin and a supported
\* chain with an empty wallet address, and completed on the spot.
C26_Witness ==
  /\ last.op = "FetchNFTsFromSimpleHash"
  /\ last.fetch.account_address = ""
  /\ last.fetch.chain_ids = <<kMainnetChainId>>
  /\ last.fetch.coin = "ETH"
  /\ CompletedWithEmptyPage
  /\ last.sent = <<>>
  /\ inflight = EmptyBag

\* The cursor of the page the indexer returned in the step just taken: ""
\* when the response carried no page or the page no cursor.
ReturnedCursor ==
  LET response == last.answer[1]
  IN IF response.status >= 200 /\ response.status <= 299 /\ response.well_formed
     THEN response.next_cursor ELSE ""

\* The step just taken handled a response within a paginated fetch.
PageOfFetchAll ==
  /\ last.op = "OnFetchNFTsFromSimpleHash"
  /\ last.fetch.callback = "OnFetchAllNFTsFromSimpleHash"

\* The requests of call id that are outstanding.
Outstanding(id) == {req \in Requests : req.fetch.call = id}

\* The pagination of FetchAllNFTsFromSimpleHash, step by step: after a page
\* with a cursor the one request issued is the same fetch with that cursor
\* and no callback is run; after the first page without one no request is
\* issued and the callback gets the non-spam records of all pages in the
\* order the indexer returned them; and the callback of every call has run
\* once when none of its requests is outstanding and not at all before.
PaginationStep ==
  /\ (PageOfFetchAll /\ ReturnedCursor # "") =>
        /\ last.cb = NoCallback
        /\ Len(last.sent) = 1
        /\ last.sent[1].fetch.cursor = ReturnedCursor
        /\ last.sent[1].fetch.call = last.fetch.call
        /\ last.sent[1].fetch.account_address = last.fetch.account_address
        /\ last.sent[1].fetch.chain_ids = last.fetch.chain_ids
        /\ last.sent[1].fetch.coin = last.fetch.coin
  /\ (PageOfFetchAll /\ ReturnedCursor = "") =>
        /\ last.sent = <<>>
        /\ CompletedAllWith(
             SelectSeq(last.fetch.seen \o last.answer[1].nfts,
                       LAMBDA nft : nft.spam_score = 0))
  /\ \A id \in 1..calls :
        output.runs[id] + Cardinality(Outstanding(id)) = 1

\* The indexer returned a page with a cursor to call id in the step just
\* taken.
CursorReturnedTo(id) ==
  /\ last.op = "OnFetchNFTsFromSimpleHash"
  /\ last.fetch.call = id
  /\ ReturnedCursor # ""

\* No request of call id is outstanding and its callback has run once.
RanOnce(id) ==
  /\ id <= calls
  /\ Outstanding(id) = {}
  /\ output.runs[id] = 1

\* C25: FetchAllNFTsFromSimpleHash requests the pages one after another,
\* each with the cursor of the page before, stops at the first page without
\* a cursor and hands its callback the non-spam records of all pages in page
\* order; the callback of a call runs exactly once, and it does run unless
\* the indexer keeps returning pages with a cursor for ever.
C25_FollowsCursorsAndCompletes ==
  /\ []PaginationStep
  /\ \A id \in 1..MaxCalls :
       \/ []<>CursorReturnedTo(id)
       \/ (Outstanding(id) # {}) ~> RanOnce(id)

\* A paginated fetch that had collected one record from the pages before
\* ended on a later page, which had no cursor and one more record, with
\* the two records in that order.
C25_Witness ==
  /\ PageOfFetchAll
  /\ ReturnedCursor = ""
  /\ last.fetch.cursor # ""
  /\ last.fetch.nfts_so_far = <<NonSpam2>>
  /\ last.answer[1].nfts = <<NonSpam1>>
  /\ CompletedAllWith(<<NonSpam2, NonSpam1>>)
  /\ output.runs[last.fetch.call] = 1

\* --------------------------------------------------- reconciliation, again
\* The pass of the loop of OnGetSignatureStatuses, in the step recorded in r,
\* that could drop the transaction id stored as meta: the transaction was
\* asked about, no signature status came back for it, and its window is set
\* and lies strictly below the height fetched in OnGetBlockHeight.
DropConditions(r, id, meta) ==
  /\ Reconciled(r)
  /\ \E i \in DOMAIN r.req.tx_meta_ids :
       /\ r.req.tx_meta_ids[i] = id
       /\ ~r.statuses[i].present
  /\ meta.last_valid_block_height # 0
  /\ meta.last_valid_block_height < r.req.block_height

\* C31: the status of a stored transaction becomes Dropped only in
\* OnGetSignatureStatuses, and only for a transaction without a returned
\* signature status whose last_valid_block_height is not 0 and strictly
\* below the block height fetched earlier in the cycle; one whose
\* last_valid_block_height is 0 or equal to that height is not Dropped.
C31_DroppedOnlyPastWindow ==
  [][\A id \in DOMAIN txs' :
       (/\ txs'[id].status = "Dropped"
        /\ (id \notin DOMAIN txs \/ txs[id].status # "Dropped"))
       => /\ id \in DOMAIN txs
          /\ DropConditions(last', id, txs[id])]_vars

\* A cycle that fetched the height 200 asked about one transaction and got
\* no signature status for it: its window 2 lies below, and the one write of
\* the step stored it as Dropped.
C31_Witness ==
  /\ Reconciled(last)
  /\ last.req.block_height = 200
  /\ Len(last.req.tx_meta_ids) = 1
  /\ ~last.statuses[1].present
  /\ HasTx(txs, last.req.tx_meta_ids[1])
  /\ txs[last.req.tx_meta_ids[1]].status = "Dropped"
  /\ txs[last.req.tx_meta_ids[1]].last_valid_block_height = 2
  /\ last.writes = <<txs[last.req.tx_meta_ids[1]]>>
  /\ last.rejected = <<>>

\* The transaction id is stored with status Submitted.
IsSubmitted(id) == HasTx(txs, id) /\ txs[id].status = "Submitted"

\* The step just taken got no signature status for transaction id, which
\* has no window.
NoStatusAndNoWindow(id) ==
  /\ Reconciled(last)
  /\ HasTx(txs, id)
  /\ txs[id].last_valid_block_height = 0
  /\ \E i \in DOMAIN last.req.tx_meta_ids :
       /\ last.req.tx_meta_ids[i] = id
       /\ ~last.statuses[i].present

\* The step just taken handled a response of the reconciliation that keeps
\* transaction id pending whatever the manager does: an RPC error, a status
\* list of another length than the list asked about, a height that does not
\* exceed its last_valid_block_height, or a signature status for it that is
\* present without an error and without "finalized".
RpcKeepsPending(id) ==
  \/ /\ last.op \in {"OnGetBlockHeight", "OnGetSignatureStatuses"}
     /\ last.result.error # kSuccess
  \/ /\ last.op = "OnGetSignatureStatuses"
     /\ last.result.error = kSuccess
     /\ Len(last.statuses) # Len(last.req.tx_meta_ids)
  \/ /\ last.op = "OnGetBlockHeight"
     /\ last.result.error = kSuccess
     /\ HasTx(txs, id)
     /\ last.req.chain_id = txs[id].chain_id
     /\ last.height <= txs[id].last_valid_block_height
  \/ /\ Reconciled(last)
     /\ \E i \in DOMAIN last.req.tx_meta_ids :
          /\ last.req.tx_meta_ids[i] = id
          /\ last.statuses[i].present
          /\ last.statuses[i].err = ""
          /\ last.statuses[i].confirmation_status # "finalized"

C33_SuccessFlagMatchesStatus ==
  (SendAnswered /\ last.writes # <<>>) =>
    /\ last.cb.success <=> (last.writes[1].status = "Submitted")
    /\ ~last.cb.success <=> (last.writes[1].status = "Error")


\* ----------------------------------------- the callback of an approval
\* The step is taken for an approval: the call itself, or a continuation the
\* caller's callback is bound into (188-189, 197-198, 251-252).
ApprovalStep(r) ==
  r.op = "ApproveTransaction" \/ r.req.callback = "ApproveTransaction"

\* The requests the step issued with the caller's callback bound into them.
CallbackBoundInto(r) ==
  {k \in DOMAIN r.sent : r.sent[k].callback = "ApproveTransaction"}

\* The step ran the caller's callback and bound it into no request.
RunsCallback(r) ==
  r.cb.name = "ApproveTransaction" /\ CallbackBoundInto(r) = {}

\* The step did not run the caller's callback and bound it into one request.
HandsCallbackOn(r) ==
  r.cb = NoCallback /\ Cardinality(CallbackBoundInto(r)) = 1

\* C34: the callback of an ApproveTransaction call is run at most once, and
\* exactly once when every request issued for the call is answered: every
\* step taken for an approval either runs the caller's callback and binds it
\* into no request, or binds it into exactly one new request without running
\* it, and no other step runs it or binds it.
C34_CallbackRunOnce ==
  [][IF ApprovalStep(last')
     THEN RunsCallback(last') \/ HandsCallbackOn(last')
     ELSE last'.cb.name # "ApproveTransaction" /\ CallbackBoundInto(last') = {}]_vars

\* The same with the steps a fatal assertion ends left aside.
CallbackRunOnceUnlessAborted ==
  [][IF ApprovalStep(last')
     THEN last'.aborted \/ RunsCallback(last') \/ HandsCallbackOn(last')
     ELSE last'.cb.name # "ApproveTransaction" /\ CallbackBoundInto(last') = {}]_vars


\* ------------------------------------------------- the frame of a retry
\* C35: a successful RetryTransaction leaves the record stored under the
\* original id as it was (status, hash, blockhash and last valid block height
\* included) and adds exactly one record, so the store then holds the
\* original and the retried transaction.
C35_RetryKeepsOriginal ==
  [][(last'.op = "RetryTransaction" /\ last'.cb.success) =>
       /\ last'.arg \in DOMAIN txs /\ last'.arg \in DOMAIN txs'
       /\ txs'[last'.arg].status = txs[last'.arg].status
       /\ txs'[last'.arg].tx_hash = txs[last'.arg].tx_hash
       /\ txs'[last'.arg].recent_blockhash = txs[last'.arg].recent_blockhash
       /\ txs'[last'.arg].last_valid_block_height =
            txs[last'.arg].last_valid_block_height
       /\ txs'[last'.arg] = txs[last'.arg]
       /\ DOMAIN txs \subseteq DOMAIN txs'
       /\ Cardinality(DOMAIN txs' \ DOMAIN txs) = 1
       /\ last'.cb.id \in DOMAIN txs' \ DOMAIN txs
     ]_vars

\* A transaction that had been sent, with a hash, a blockhash and a window,
\* was retried: it is stored as before, next to the new one.
C35_Witness ==
  /\ last.op = "RetryTransaction"
  /\ last.cb.success
  /\ last.arg \in DOMAIN txs
  /\ txs[last.arg] = last.before
  /\ txs[last.arg].status \in {"Submitted", "Dropped", "Error"}
  /\ txs[last.arg].recent_blockhash # ""
  /\ txs[last.arg].last_valid_block_height # 0
  /\ Cardinality(DOMAIN txs) = 2
  /\ txs[last.cb.id].status = "Unapproved"


\* ------------------------------------------- the frame of fee estimation
FeeEstimationStep(r) ==
  r.op \in {"GetEstimatedTxFee", "OnGetLatestBlockhashForGetEstimatedTxFee",
            "OnGetFeeForMessage"}

\* C36: GetEstimatedTxFee never changes a stored transaction. No step of fee
\* estimation writes the store; the blockhash fetched for pricing is in the
\* message the fee is asked for, and the stored transaction keeps its status,
\* blockhash and last valid block height.
C36_FeeEstimationWritesNothing ==
  [][FeeEstimationStep(last') =>
       /\ txs' = txs
       /\ last'.writes = <<>> /\ last'.rejected = <<>>
       /\ (last'.op = "OnGetLatestBlockhashForGetEstimatedTxFee"
           /\ last'.result.error = kSuccess) =>
            /\ last'.sent[1].message.recent_blockhash = last'.blockhash
            /\ HasTx(txs, last'.req.meta.id) =>
                 /\ txs'[last'.req.meta.id].status = txs[last'.req.meta.id].status
                 /\ txs'[last'.req.meta.id].recent_blockhash =
                      txs[last'.req.meta.id].recent_blockhash
                 /\ txs'[last'.req.meta.id].last_valid_block_height =
                      txs[last'.req.meta.id].last_valid_block_height
     ]_vars

\* The fee of an unapproved transaction without a blockhash was asked for
\* with the fetched blockhash and window; the stored transaction has neither.
C36_Witness ==
  /\ last.op = "OnGetLatestBlockhashForGetEstimatedTxFee"
  /\ last.result.error = kSuccess
  /\ last.req.meta.recent_blockhash = ""
  /\ last.sent[1].message.recent_blockhash = "B1"
  /\ last.height # 0
  /\ HasTx(txs, last.req.meta.id)
  /\ txs[last.req.meta.id].status = "Unapproved"
  /\ txs[last.req.meta.id].recent_blockhash = ""
  /\ txs[last.req.meta.id].last_valid_block_height = 0


\* ------------------------------------- a reconciliation cycle that fails
\* C37: when GetSolanaBlockHeight fails, no GetSolanaSignatureStatuses
\* request is issued; when GetSolanaSignatureStatuses fails, or answers with
\* a list whose length is not the number of transactions asked about, no
\* stored transaction is modified.
C37_FailedCycleChangesNothing ==
  [][/\ (last'.op = "OnGetBlockHeight" /\ last'.result.error # kSuccess) =>
          /\ last'.sent = <<>>
          /\ inflight' = inflight (-) SetToBag({last'.req})
          /\ txs' = txs
     /\ (/\ last'.op = "OnGetSignatureStatuses"
         /\ \/ last'.result.error # kSuccess
            \/ Len(last'.statuses) # Len(last'.req.tx_meta_ids)) =>
          /\ txs' = txs
          /\ last'.writes = <<>> /\ last'.rejected = <<>>
          /\ last'.sent = <<>>
     ]_vars

\* GetSolanaSignatureStatuses answered one status too many for a submitted
\* transaction whose window had passed: the transaction is still Submitted.
C37_Witness ==
  /\ last.op = "OnGetSignatureStatuses"
  /\ last.result.error = kSuccess
  /\ Len(last.req.tx_meta_ids) = 1
  /\ Len(last.statuses) = 2
  /\ HasTx(txs, last.req.tx_meta_ids[1])
  /\ txs[last.req.tx_meta_ids[1]].status = "Submitted"
  /\ ShouldDrop(txs[last.req.tx_meta_ids[1]], last.req.block_height)


\* ------------------------------------ the construction of a token transfer
LookupAnswered == last.op = "OnGetAccountInfo"

\* The two instructions as the construction is to make them from the
\* arguments bound to the lookup.
ExpectedCreate(req) ==
  CreateAssociatedTokenAccount(req.from_wallet_address, req.to_wallet_address,
    req.to_associated_token_account, req.spl_token_mint_address)
ExpectedTransfer(req) ==
  SplTokenTransfer(kSolanaTokenProgramId, req.from_associated_token_account,
    req.to_associated_token_account, req.from_wallet_address, <<>>, req.amount)

\* C38: in the construction of an SPL-token transfer, when the lookup of the
\* recipient's associated token account answers with no account or with an
\* account the token program does not own, the instructions of the message
\* are CreateAssociatedTokenAccount and then the token transfer, and the type
\* is the transfer with account creation; otherwise the token transfer is the
\* only instruction. An RPC error of the lookup is handed to the callback
\* with its code and message and without transaction data. The only other
\* outcome is an internal error without transaction data.
C38_TokenTransferInstructions ==
  LookupAnswered =>
    /\ last.cb.name = "MakeTokenProgramTransferTxData"
    /\ last.sent = <<>>
    /\ last.result.error # kSuccess =>
         /\ ~last.cb.tx_data.present
         /\ last.cb.error = last.result.error
         /\ last.cb.error_message = last.result.error_message
    /\ (last.result.error = kSuccess /\ ~last.cb.tx_data.present) =>
         /\ last.cb.error = kInternalError
         /\ ~last.answer[2]
    /\ (last.result.error = kSuccess /\ last.cb.tx_data.present) =>
         /\ last.cb.error = kSuccess
         /\ ExpectedCreate(last.req).present /\ ExpectedTransfer(last.req).present
         /\ IF \/ ~last.answer[1].present
               \/ last.answer[1].owner # kSolanaTokenProgramId
            THEN /\ last.cb.tx_data.instructions =
                      <<ExpectedCreate(last.req), ExpectedTransfer(last.req)>>
                 /\ last.cb.tx_data.tx_type =
                      "SolanaSPLTokenTransferWithAssociatedTokenAccountCreation"
            ELSE /\ last.cb.tx_data.instructions = <<ExpectedTransfer(last.req)>>
                 /\ last.cb.tx_data.tx_type = "SolanaSPLTokenTransfer"

\* The recipient's associated token account exists and the system program
\* owns it: the transfer is built with the creation of the account first.
C38_Witness ==
  /\ LookupAnswered
  /\ last.result.error = kSuccess
  /\ last.answer[1] = TokenAccountInfo(kSolanaSystemProgramId)
  /\ last.cb.tx_data.present
  /\ Len(last.cb.tx_data.instructions) = 2
  /\ last.cb.tx_data.instructions[1].program_id = kSolanaAssociatedTokenProgramId
  /\ last.cb.tx_data.instructions[2].program_id = kSolanaTokenProgramId
  /\ last.cb.tx_data.tx_type =
       "SolanaSPLTokenTransferWithAssociatedTokenAccountCreation"

====
